---- MODULE Spec2Model ----
(***************************************************************************)
(* Grammatical-evolution Mathler solver: the genotype/phenotype codec      *)
(* (grammar/decoder.py, grammar/encoder.py), the arithmetic evaluator and  *)
(* puzzle engine (engine/mathler_engine.py), the fitness evaluator         *)
(* (fitness/), the evolutionary operators and generation loop (evolution/) *)
(* and the solve orchestrator (solver/solver.py).                          *)
(*                                                                         *)
(* Conventions.  A Python str is a sequence of one-character strings.      *)
(* None is the one-element sequence <<"None">>.  Python list indices are   *)
(* 0-based in the source and 1-based here; a position variable named as in *)
(* the source (pos, codon_idx, i) keeps the source's 0-based value.        *)
(***************************************************************************)
EXTENDS Integers, Sequences, FiniteSets, TLC

VARIABLES
    call,               \* arguments of a direct call of the codec or the evaluator
    ret,                \* what that call returned
    cpc,                \* position in the sequence of direct calls
    game,               \* MathlerGame: secret_expr, target_value, max_guesses, history
    cfg,                \* GlobalConfig: evolution, fitness, solver
    population,         \* solver: the population carried across generations
    history,            \* solver: its own list of GuessResults
    guess_idx,          \* solver: index of the current guess slot
    gen_idx,            \* solver: index of the next generation of the slot
    pc,                 \* solver: position in solve_mathler_with_evolution
    survivors,          \* run_generation: the survivor pool
    new_pop,            \* run_generation: the population being built
    existing_genomes    \* run_generation: genomes already added to new_pop

pvars == <<call, ret, cpc>>

svars == <<cfg, population, history, guess_idx, gen_idx, pc, survivors, new_pop,
           existing_genomes>>

vars == <<call, ret, cpc, game, cfg, population, history, guess_idx, gen_idx, pc,
          survivors, new_pop, existing_genomes>>

(***************************************************************************)
(* grammar/grammar_defs_OLD.py : the expr6 grammar                         *)
(***************************************************************************)
START_SYMBOL == "<expr6>"

TERMINALS == {"0", "1", "2", "3", "4", "5", "6", "7", "8", "9", "+", "-", "*", "/"}

GRAMMAR ==
    ("<expr6>" :> << <<"<int6>">>, <<"<bin_expr6>">>, <<"<tri_expr6>">> >>)
 @@ ("<op>" :> << <<"<addmul_op>">>, <<"<div_op>">> >>)
 @@ ("<addmul_op>" :> << <<"+">>, <<"-">>, <<"*">> >>)
 @@ ("<div_op>" :> << <<"/">> >>)
 @@ ("<bin_expr6>" :> <<
        <<"<int1>", "<op>", "<int4>">>,
        <<"<int2>", "<op>", "<int3>">>,
        <<"<int3>", "<op>", "<int2>">>,
        <<"<int4>", "<addmul_op>", "<int1>">>,
        <<"<int4>", "<div_op>", "<nz_int1>">> >>)
 @@ ("<tri_expr6>" :> <<
        <<"<tri_expr6_112>">>, <<"<tri_expr6_121>">>, <<"<tri_expr6_211>">> >>)
 @@ ("<tri_expr6_112>" :> <<
        <<"<int1>", "<addmul_op>", "<int1>", "<op>", "<int2>">>,
        <<"<int1>", "<div_op>", "<nz_int1>", "<op>", "<int2>">> >>)
 @@ ("<tri_expr6_121>" :> <<
        <<"<int1>", "<op>", "<int2>", "<addmul_op>", "<int1>">>,
        <<"<int1>", "<op>", "<int2>", "<div_op>", "<nz_int1>">> >>)
 @@ ("<tri_expr6_211>" :> <<
        <<"<int2>", "<addmul_op>", "<int1>", "<addmul_op>", "<int1>">>,
        <<"<int2>", "<div_op>", "<nz_int1>", "<addmul_op>", "<int1>">>,
        <<"<int2>", "<addmul_op>", "<int1>", "<div_op>", "<nz_int1>">>,
        <<"<int2>", "<div_op>", "<nz_int1>", "<div_op>", "<nz_int1>">> >>)
 @@ ("<digit>" :> << <<"0">>, <<"<nonzero_digit>">> >>)
 @@ ("<nonzero_digit>" :> <<
        <<"1">>, <<"2">>, <<"3">>, <<"4">>, <<"5">>, <<"6">>, <<"7">>, <<"8">>, <<"9">> >>)
 @@ ("<int1>" :> << <<"0">>, <<"<nonzero_digit>">> >>)
 @@ ("<nz_int1>" :> << <<"<nonzero_digit>">> >>)
 @@ ("<int2>" :> << <<"<nonzero_digit>", "<digit>">>, <<"-", "<nonzero_digit>">> >>)
 @@ ("<int3>" :> <<
        <<"<nonzero_digit>", "<digit>", "<digit>">>,
        <<"-", "<nonzero_digit>", "<digit>">> >>)
 @@ ("<int4>" :> <<
        <<"<nonzero_digit>", "<digit>", "<digit>", "<digit>">>,
        <<"-", "<nonzero_digit>", "<digit>", "<digit>">> >>)
 @@ ("<int6>" :> <<
        <<"<nonzero_digit>", "<digit>", "<digit>", "<digit>", "<digit>", "<digit>">>,
        <<"-", "<nonzero_digit>", "<digit>", "<digit>", "<digit>", "<digit>">> >>)

\* symbol.startswith("<") and symbol.endswith(">"): the symbols of the grammar
\* that carry the wrapping marker are exactly the keys of GRAMMAR; every other
\* symbol of a production is a one-character terminal.
is_nonterminal(symbol) == symbol \in DOMAIN GRAMMAR

NoneValue == <<"None">>

(***************************************************************************)
(* grammar/decoder.py                                                      *)
(***************************************************************************)
ExprWidth == 6

DefaultMaxExpansions == 100

AnyNonterminal(symbols) == \E i \in 1..Len(symbols) : is_nonterminal(symbols[i])

\* index (1-based) of the first nonterminal from the left
FirstNonterminal(symbols) ==
    CHOOSE i \in 1..Len(symbols) :
        /\ is_nonterminal(symbols[i])
        /\ \A j \in 1..(i - 1) : ~is_nonterminal(symbols[j])

ExpansionCapReachedOffByOne(expansions, max_expansions) == expansions > max_expansions

\* decoder.py:32  if expansions >= max_expansions: raise MappingError
ExpansionCapReached(expansions, max_expansions) == expansions >= max_expansions

\* a variant of CodonAt that stays at the last codon instead of wrapping
CodonAtNoWrap(genome, codon_idx) ==
    genome[(IF codon_idx < Len(genome) THEN codon_idx ELSE Len(genome) - 1) + 1]

\* decoder.py:44  codon = genome[codon_idx % genome_len]
CodonAt(genome, codon_idx) == genome[(codon_idx % Len(genome)) + 1]

\* decoder.py:46-48  expansion = productions[codon % len(productions)]
ChosenProduction(productions, codon) ==
    productions[(codon % Len(productions)) + 1]

\* decoder.py:51  symbols = symbols[:i] + expansion + symbols[i+1:]  (i 1-based here)
ExpandAt(symbols, i, expansion) ==
    SubSeq(symbols, 1, i - 1) \o expansion \o SubSeq(symbols, i + 1, Len(symbols))

\* decoder.py:40-51  one expansion of the nonterminal at i
ExpandStep(genome, symbols, codon_idx, i) ==
    ExpandAt(symbols, i,
             ChosenProduction(GRAMMAR[symbols[i]], CodonAt(genome, codon_idx)))

RECURSIVE DecodeLoop(_, _, _, _, _)
\* the while loop of decode_genome_to_expr; returns the loop's final locals
DecodeLoop(genome, max_expansions, symbols, codon_idx, expansions) ==
    IF ~AnyNonterminal(symbols)
    THEN [raised |-> FALSE, symbols |-> symbols, expansions |-> expansions]
    ELSE IF ExpansionCapReached(expansions, max_expansions)
    THEN [raised |-> TRUE, symbols |-> symbols, expansions |-> expansions]
    ELSE DecodeLoop(genome, max_expansions,
                    ExpandStep(genome, symbols, codon_idx, FirstNonterminal(symbols)),
                    codon_idx + 1, expansions + 1)

\* decoder.py:55-61  after the loop: join, check the width, return
DecodeFinish(r) ==
    IF r.raised
    THEN [ok |-> FALSE, expr |-> NoneValue, expansions |-> r.expansions]
    ELSE IF Len(r.symbols) # ExprWidth
    THEN [ok |-> FALSE, expr |-> NoneValue, expansions |-> r.expansions]
    ELSE [ok |-> TRUE, expr |-> r.symbols, expansions |-> r.expansions]

\* decode_genome_to_expr with its bookkeeping: ok = returned a string,
\* ~ok = raised MappingError; expansions = productions applied.
DecodeOutcome(genome, max_expansions) ==
    IF Len(genome) = 0
    THEN [ok |-> FALSE, expr |-> NoneValue, expansions |-> 0]
    ELSE DecodeFinish(DecodeLoop(genome, max_expansions, <<START_SYMBOL>>, 0, 0))

decode_genome_to_expr(genome) == DecodeOutcome(genome, DefaultMaxExpansions)

(***************************************************************************)
(* engine/mathler_engine.py : arithmetic evaluation                        *)
(*                                                                         *)
(* safe_eval_expression hands the string to Python's eval.  ParseArith is   *)
(* Python's expression grammar restricted to the puzzle alphabet:          *)
(*   arith  ::= term (("+" | "-") term)*                                   *)
(*   term   ::= factor (("*" | "/" | "//") factor)*                        *)
(*   factor ::= ("+" | "-") factor | power                                 *)
(*   power  ::= NUMBER ["**" factor]                                       *)
(* NUMBER is a maximal digit run, rejected when it has a leading zero and  *)
(* is not all zeros.  Any other character ends in an exception.  Values    *)
(* are exact rationals [n, d] (d > 0, lowest terms): "/" is true division, *)
(* and an integral float is converted to int (lines 54-55), which on exact *)
(* rationals is the identity.  Every failure (SyntaxError, NameError,      *)
(* ZeroDivisionError) is re-raised as ExpressionError (lines 49-52).       *)
(***************************************************************************)
_ALLOWED_CHARS == {"0", "1", "2", "3", "4", "5", "6", "7", "8", "9", "+", "-", "*", "/"}

Digits == {"0", "1", "2", "3", "4", "5", "6", "7", "8", "9"}

DigitValue ==
    ("0" :> 0) @@ ("1" :> 1) @@ ("2" :> 2) @@ ("3" :> 3) @@ ("4" :> 4)
 @@ ("5" :> 5) @@ ("6" :> 6) @@ ("7" :> 7) @@ ("8" :> 8) @@ ("9" :> 9)

Abs(x) == IF x < 0 THEN -x ELSE x

RECURSIVE Gcd(_, _)
Gcd(a, b) == IF b = 0 THEN a ELSE Gcd(b, a % b)

RatReduce(n, d, g) ==
    IF d < 0 THEN [n |-> (-n) \div g, d |-> (-d) \div g]
    ELSE [n |-> n \div g, d |-> d \div g]

\* the rational n/d (d # 0) in lowest terms with a positive denominator
Rat(n, d) == RatReduce(n, d, Gcd(Abs(n), Abs(d)))

RatInt(k) == [n |-> k, d |-> 1]

RatAdd(a, b) == Rat(a.n * b.d + b.n * a.d, a.d * b.d)

RatSub(a, b) == Rat(a.n * b.d - b.n * a.d, a.d * b.d)

RatMul(a, b) == Rat(a.n * b.n, a.d * b.d)

RatNeg(a) == [n |-> -a.n, d |-> a.d]

RatAbs(a) == [n |-> Abs(a.n), d |-> a.d]

RatLess(a, b) == a.n * b.d < b.n * a.d

\* a / b for b # 0
RatDiv(a, b) == Rat(a.n * b.d, a.d * b.n)

RatFloor(q) == RatInt(q.n \div q.d)

\* a // b for b # 0 : floor of the quotient
RatFloorDiv(a, b) == RatFloor(RatDiv(a, b))

RECURSIVE IntPow(_, _)
IntPow(b, e) == IF e = 0 THEN 1 ELSE b * IntPow(b, e - 1)

\* failure of eval: an exception was raised
EvalFail(pos) == [ok |-> FALSE, pos |-> pos, v |-> RatInt(0)]

EvalOk(pos, v) == [ok |-> TRUE, pos |-> pos, v |-> v]

CharAt(s, pos) == IF pos < Len(s) THEN s[pos + 1] ELSE "EOF"

RECURSIVE NumberEnd(_, _)
\* position after the maximal digit run starting at pos
NumberEnd(s, pos) ==
    IF CharAt(s, pos) \in Digits THEN NumberEnd(s, pos + 1) ELSE pos

RECURSIVE NumberValue(_, _, _)
\* value of the digits s[from .. to-1] (0-based, to exclusive)
NumberValue(s, from, to) ==
    IF to <= from THEN 0
    ELSE 10 * NumberValue(s, from, to - 1) + DigitValue[s[to]]

\* the literal s[pos .. end-1]: digits, no leading zero unless every digit is zero
NumberLiteral(s, pos, end) ==
    IF end = pos THEN EvalFail(pos)
    ELSE IF /\ s[pos + 1] = "0"
            /\ end - pos > 1
            /\ \E k \in (pos + 1)..end : s[k] # "0"
    THEN EvalFail(pos)
    ELSE EvalOk(end, RatInt(NumberValue(s, pos, end)))

\* base ** e, base a non-negative integer literal.  The exponent is a factor;
\* it is integral in every string shorter than 8 characters.
\* Python's int is unbounded.  The integer 10 ** k for k > 9 lies outside the
\* integers of the model and is kept by its exponent: d = 0 marks 10 ** n.
\* Arithmetic on such a value is not modelled; it occurs as a whole expression.
PowerOfTen(k) == [n |-> k, d |-> 0]

RatPow(base, e) ==
    IF e.d # 1 THEN [ok |-> FALSE, v |-> RatInt(0)]
    ELSE IF base = RatInt(10) /\ e.n > 9 THEN [ok |-> TRUE, v |-> PowerOfTen(e.n)]
    ELSE IF e.n >= 0 THEN [ok |-> TRUE, v |-> RatInt(IntPow(base.n, e.n))]
    ELSE IF base.n = 0 THEN [ok |-> FALSE, v |-> RatInt(0)]
    ELSE [ok |-> TRUE, v |-> Rat(1, IntPow(base.n, -e.n))]

RECURSIVE ParseFactor(_, _)

PowerResult(pos, p) == IF p.ok THEN EvalOk(pos, p.v) ELSE EvalFail(pos)

PowerOf(b, e) == IF ~e.ok THEN e ELSE PowerResult(e.pos, RatPow(b.v, e.v))

PowerAfterBase(s, b) ==
    IF ~b.ok THEN b
    ELSE IF CharAt(s, b.pos) = "*" /\ CharAt(s, b.pos + 1) = "*"
    THEN PowerOf(b, ParseFactor(s, b.pos + 2))
    ELSE b

ParsePower(s, pos) == PowerAfterBase(s, NumberLiteral(s, pos, NumberEnd(s, pos)))

SignedFactor(sign, f) ==
    IF ~f.ok THEN f
    ELSE IF sign = "-" THEN EvalOk(f.pos, RatNeg(f.v)) ELSE f

ParseFactor(s, pos) ==
    IF CharAt(s, pos) \in {"+", "-"}
    THEN SignedFactor(CharAt(s, pos), ParseFactor(s, pos + 1))
    ELSE ParsePower(s, pos)

RECURSIVE TermRest(_, _, _)

TimesFactor(s, acc, f) ==
    IF ~f.ok THEN f ELSE TermRest(s, f.pos, RatMul(acc, f.v))

OverFactor(s, acc, f, floor) ==
    IF ~f.ok THEN f
    ELSE IF f.v.n = 0 THEN EvalFail(f.pos)
    ELSE TermRest(s, f.pos, IF floor THEN RatFloorDiv(acc, f.v) ELSE RatDiv(acc, f.v))

TermRest(s, pos, acc) ==
    IF CharAt(s, pos) = "*"
    THEN IF CharAt(s, pos + 1) = "*" THEN EvalFail(pos)
         ELSE TimesFactor(s, acc, ParseFactor(s, pos + 1))
    ELSE IF CharAt(s, pos) = "/"
    THEN IF CharAt(s, pos + 1) = "/"
         THEN OverFactor(s, acc, ParseFactor(s, pos + 2), TRUE)
         ELSE OverFactor(s, acc, ParseFactor(s, pos + 1), FALSE)
    ELSE EvalOk(pos, acc)

TermAfterFactor(s, f) == IF ~f.ok THEN f ELSE TermRest(s, f.pos, f.v)

ParseTerm(s, pos) == TermAfterFactor(s, ParseFactor(s, pos))

RECURSIVE ArithRest(_, _, _)

PlusTerm(s, acc, sign, t) ==
    IF ~t.ok THEN t
    ELSE ArithRest(s, t.pos, IF sign = "+" THEN RatAdd(acc, t.v) ELSE RatSub(acc, t.v))

ArithRest(s, pos, acc) ==
    IF CharAt(s, pos) \in {"+", "-"}
    THEN PlusTerm(s, acc, CharAt(s, pos), ParseTerm(s, pos + 1))
    ELSE EvalOk(pos, acc)

ArithAfterTerm(s, t) == IF ~t.ok THEN t ELSE ArithRest(s, t.pos, t.v)

ParseArith(s, pos) == ArithAfterTerm(s, ParseTerm(s, pos))

EvalResult(expr, r) ==
    IF r.ok /\ r.pos = Len(expr) THEN [ok |-> TRUE, v |-> r.v]
    ELSE [ok |-> FALSE, v |-> RatInt(0)]

\* eval(expr, {"__builtins__": None}, {}) : ok = a number came back,
\* ~ok models "raise ExpressionError"
safe_eval_expression(expr) == EvalResult(expr, ParseArith(expr, 0))

(***************************************************************************)
(* grammar/encoder.py                                                      *)
(***************************************************************************)
ParseFail(pos) == [ok |-> FALSE, pos |-> pos, choices |-> <<>>]

RECURSIVE _parse_symbol(_, _, _)
RECURSIVE ParseChildren(_, _, _, _, _)
RECURSIVE ParseProductions(_, _, _, _)

\* encoder.py:43-46  a child failed: give up the production; else go on after it
ChildParsed(prod, k, expr, choices, child) ==
    IF ~child.ok THEN ParseFail(child.pos)
    ELSE ParseChildren(prod, k + 1, expr, child.pos, choices \o child.choices)

\* encoder.py:41-46  the loop over the child symbols of one production
ParseChildren(prod, k, expr, cur_pos, choices) ==
    IF k > Len(prod)
    THEN [ok |-> TRUE, pos |-> cur_pos, choices |-> choices]
    ELSE ChildParsed(prod, k, expr, choices, _parse_symbol(prod[k], expr, cur_pos))

\* encoder.py:48-52  the first production that matches wins; else try the next
ProductionTried(symbol, expr, pos, prod_idx, r) ==
    IF r.ok THEN r ELSE ParseProductions(symbol, expr, pos, prod_idx + 1)

\* encoder.py:36-52  the loop over the productions of a nonterminal, in order
ParseProductions(symbol, expr, pos, prod_idx) ==
    IF prod_idx >= Len(GRAMMAR[symbol]) THEN ParseFail(pos)
    ELSE ProductionTried(symbol, expr, pos, prod_idx,
                         ParseChildren(GRAMMAR[symbol][prod_idx + 1], 1, expr, pos,
                                       << <<symbol, prod_idx>> >>))

_parse_symbol(symbol, expr, pos) ==
    IF ~is_nonterminal(symbol)
    THEN IF pos >= Len(expr) \/ expr[pos + 1] # symbol
         THEN ParseFail(pos)
         ELSE [ok |-> TRUE, pos |-> pos + 1, choices |-> <<>>]
    ELSE ParseProductions(symbol, expr, pos, 0)

Min(a, b) == IF a < b THEN a ELSE b

RECURSIVE TileLoop(_, _, _)
\* encoder.py:109-112  while len(full_codons) < genome_length: extend(codons[:remaining])
TileLoop(full_codons, codons, genome_length) ==
    IF Len(full_codons) >= genome_length THEN full_codons
    ELSE TileLoop(full_codons
                      \o SubSeq(codons, 1, Min(genome_length - Len(full_codons), Len(codons))),
                  codons, genome_length)

\* encoder.py:104-114  repeat or truncate to exactly genome_length codons
FitCodons(codons, genome_length) ==
    IF Len(codons) >= genome_length THEN SubSeq(codons, 1, genome_length)
    ELSE TileLoop(<<>>, codons, genome_length)

ChoiceCodonsOffByOne(choices) == [i \in 1..Len(choices) |-> choices[i][2] + 1]

\* encoder.py:92-99  codon = production index of each recorded choice
ChoiceCodons(choices) == [i \in 1..Len(choices) |-> choices[i][2]]

EncodeRaise(error) == [ok |-> FALSE, error |-> error, genome |-> <<>>, n |-> 0]

\* encoder.py:99-114  the recorded codons, fitted to genome_length
EncodeCodons(codons, genome_length) ==
    IF Len(codons) = 0 THEN EncodeRaise("EncodingError")
    ELSE [ok |-> TRUE, error |-> "", genome |-> FitCodons(codons, genome_length),
          n |-> Len(codons)]

\* encoder.py:86-99  the parse must succeed and consume the whole string
EncodeParsed(expr, genome_length, r) ==
    IF ~r.ok \/ r.pos # Len(expr) THEN EncodeRaise("EncodingError")
    ELSE EncodeCodons(ChoiceCodons(r.choices), genome_length)

\* encode_expr_to_genome: ok = a genome was returned; otherwise error names the
\* exception raised; n = number of recorded choices.
encode_expr_to_genome(expr, genome_length) ==
    IF Len(expr) # ExprWidth THEN EncodeRaise("EncodingError")
    ELSE IF \E i \in 1..Len(expr) : expr[i] \notin TERMINALS
    THEN EncodeRaise("EncodingError")
    ELSE IF ~safe_eval_expression(expr).ok THEN EncodeRaise("ExpressionError")
    ELSE EncodeParsed(expr, genome_length, _parse_symbol(START_SYMBOL, expr, 0))

(***************************************************************************)
(* engine/mathler_engine.py : feedback and the game                        *)
(***************************************************************************)
compute_feedback_unmatched_only(guess, secret) ==
    IF Len(guess) # Len(secret)
    THEN [raised |-> TRUE, feedback |-> <<>>]
    ELSE [raised |-> FALSE,
          feedback |-> [i \in 1..Len(secret) |->
                          IF guess[i] = secret[i] THEN "GREEN"
                          ELSE IF \E j \in 1..Len(secret) :
                                     secret[j] = guess[i] /\ guess[j] # secret[j]
                          THEN "YELLOW"
                          ELSE "GRAY"]]

\* compute_feedback: raised models the ValueError for unequal lengths
compute_feedback(guess, secret) ==
    IF Len(guess) # Len(secret)
    THEN [raised |-> TRUE, feedback |-> <<>>]
    ELSE [raised |-> FALSE,
          feedback |-> [i \in 1..Len(secret) |->
                          IF guess[i] = secret[i] THEN "GREEN"
                          ELSE IF \E j \in 1..Len(secret) : secret[j] = guess[i]
                          THEN "YELLOW"
                          ELSE "GRAY"]]

\* Optional[float]: <<>> is None, <<n, d>> the number n/d
NoValue == <<>>

ValueOf(v) == <<v.n, v.d>>

\* GuessResult for a guess rejected by the basic checks or by the target check
InvalidResult(guess_expr, value, error) ==
    [guess |-> guess_expr, feedback |-> <<>>, value |-> value,
     is_valid |-> FALSE, is_correct |-> FALSE, error |-> error]

\* a variant of GuessEvaluated that marks every valid guess correct
GuessEvaluatedValidIsCorrect(g, guess_expr, e) ==
    IF ~e.ok THEN InvalidResult(guess_expr, NoValue, "evaluation")
    ELSE IF e.v # g.target_value
    THEN InvalidResult(guess_expr, ValueOf(e.v), "value")
    ELSE [guess |-> guess_expr,
          feedback |-> compute_feedback(guess_expr, g.secret_expr).feedback,
          value |-> ValueOf(e.v),
          is_valid |-> TRUE,
          is_correct |-> TRUE,
          error |-> "None"]

\* mathler_engine.py:145-189  after the length and character checks
GuessEvaluated(g, guess_expr, e) ==
    IF ~e.ok THEN InvalidResult(guess_expr, NoValue, "evaluation")
    ELSE IF e.v # g.target_value
    THEN InvalidResult(guess_expr, ValueOf(e.v), "value")
    ELSE [guess |-> guess_expr,
          feedback |-> compute_feedback(guess_expr, g.secret_expr).feedback,
          value |-> ValueOf(e.v),
          is_valid |-> TRUE,
          is_correct |-> guess_expr = g.secret_expr,
          error |-> "None"]

\* the GuessResult built by MathlerGame.make_guess
GuessOutcome(g, guess_expr) ==
    IF Len(guess_expr) # Len(g.secret_expr)
    THEN InvalidResult(guess_expr, NoValue, "length")
    ELSE IF \E i \in 1..Len(guess_expr) : guess_expr[i] \notin _ALLOWED_CHARS
    THEN InvalidResult(guess_expr, NoValue, "character")
    ELSE GuessEvaluated(g, guess_expr, safe_eval_expression(guess_expr))

\* mathler_engine.py:159-163  the message of a wrong value is built with
\* f"... evaluates to {value} ...": str() of an int of more than 4300 decimal
\* digits raises ValueError (CPython's default sys.get_int_max_str_digits()),
\* which is not an ExpressionError and is not caught
WrongValueRaises(g, e) ==
    e.ok /\ e.v # g.target_value /\ e.v.d = 0 /\ e.v.n + 1 > 4300

\* MathlerGame.make_guess is left by an exception
GuessRaises(g, guess_expr) ==
    /\ Len(guess_expr) = Len(g.secret_expr)
    /\ \A i \in 1..Len(guess_expr) : guess_expr[i] \in _ALLOWED_CHARS
    /\ WrongValueRaises(g, safe_eval_expression(guess_expr))

\* a variant of make_guess that puts the new outcome in front of the history
make_guess_at_front(g, guess_expr) ==
    IF GuessRaises(g, guess_expr) THEN g
    ELSE [g EXCEPT !.history = <<GuessOutcome(g, guess_expr)>> \o @]

\* MathlerGame.make_guess: the game after the call (the result of a call that
\* returns is its last entry; a call that raises appends nothing)
make_guess(g, guess_expr) ==
    IF GuessRaises(g, guess_expr) THEN g
    ELSE [g EXCEPT !.history = Append(@, GuessOutcome(g, guess_expr))]

\* MathlerGame.from_secret_expr, for a secret that evaluates
from_secret_expr(secret_expr, max_guesses) ==
    [secret_expr |-> secret_expr,
     target_value |-> safe_eval_expression(secret_expr).v,
     max_guesses |-> max_guesses,
     history |-> <<>>]

is_solved(g) == \E i \in 1..Len(g.history) : g.history[i].is_correct

guesses_remaining(g) == g.max_guesses - Len(g.history)

(***************************************************************************)
(* fitness/constraints.py, fitness/fitness_functions.py                    *)
(*                                                                         *)
(* Scores are integers counting HALVES of the source's float score, so     *)
(* that low_gray_bonus / 2 stays integral; float("-inf") is the fitness    *)
(* whose rej flag is set.                                                  *)
(***************************************************************************)
Rejected == [rej |-> TRUE, v |-> 0]

Scored(v) == [rej |-> FALSE, v |-> v]

\* Python's f1 < f2 on floats, -inf included
FitnessLess(f1, f2) ==
    IF f2.rej THEN FALSE
    ELSE IF f1.rej THEN TRUE
    ELSE f1.v < f2.v

FitnessGreater(f1, f2) == FitnessLess(f2, f1)

Range(q) == {q[i] : i \in 1..Len(q)}

\* every symbol marked GRAY in some valid entry
get_forbidden_symbols(hist) ==
    UNION {{hist[k].guess[i] : i \in {i \in 1..Len(hist[k].feedback) :
                                         hist[k].feedback[i] = "GRAY"}} :
           k \in {k \in 1..Len(hist) : hist[k].is_valid}}

\* constraints.py:37-40  0-based indices marked GREEN in a valid entry
GreenIndices(res) ==
    IF res.is_valid
    THEN {i \in 0..(Len(res.feedback) - 1) : res.feedback[i + 1] = "GREEN"}
    ELSE {}

\* constraints.py:36-40  known[i] = res.guess[i] for every GREEN of res
KnownAfter(known, res) ==
    [i \in (DOMAIN known) \cup GreenIndices(res) |->
        IF i \in GreenIndices(res) THEN res.guess[i + 1] ELSE known[i]]

RECURSIVE get_known_green_positions(_)
\* dict index -> symbol (0-based index); a later entry overwrites an earlier one
get_known_green_positions(hist) ==
    IF Len(hist) = 0 THEN <<>>
    ELSE KnownAfter(get_known_green_positions(SubSeq(hist, 1, Len(hist) - 1)),
                    hist[Len(hist)])

RECURSIVE is_expr_compatible_with_history(_, _)

\* a variant of FeedbackCompared that compares the GREEN positions only
FeedbackComparedGreensOnly(expr, res, rest, simulated) ==
    IF simulated.raised THEN "raise"
    ELSE IF \E i \in 1..Len(res.feedback) :
                (simulated.feedback[i] = "GREEN") # (res.feedback[i] = "GREEN")
    THEN "False"
    ELSE is_expr_compatible_with_history(expr, rest)

\* constraints.py:60-63  compare the simulated feedback with the recorded one
FeedbackCompared(expr, res, rest, simulated) ==
    IF simulated.raised THEN "raise"
    ELSE IF simulated.feedback # res.feedback THEN "False"
    ELSE is_expr_compatible_with_history(expr, rest)

\* constraints.py:56-63  one entry of the history
EntryCompared(expr, res, rest) ==
    IF ~res.is_valid THEN is_expr_compatible_with_history(expr, rest)
    ELSE FeedbackCompared(expr, res, rest, compute_feedback(res.guess, expr))

\* "True", "False", or "raise" when compute_feedback raises on unequal lengths;
\* the entries are visited in order and the first mismatch or raise ends the call
is_expr_compatible_with_history(expr, hist) ==
    IF Len(hist) = 0 THEN "True"
    ELSE EntryCompared(expr, hist[1], SubSeq(hist, 2, Len(hist)))

OutsideToleranceInclusive(diff, fit_cfg) ==
    ~RatLess(diff, RatInt(fit_cfg.error_tolerance))

\* fitness_functions.py:35-39  the hard value constraint
OutsideTolerance(diff, fit_cfg) == RatLess(RatInt(fit_cfg.error_tolerance), diff)

\* fitness_functions.py:36-37  score -= wrong_value_penalty when diff > 0
ValueTerm(diff, fit_cfg) ==
    IF RatLess(RatInt(0), diff) THEN -2 * fit_cfg.wrong_value_penalty ELSE 0

\* a variant of GrayBonus that still rewards three forbidden symbols
GrayBonusUpToThree(num_gray_used, fit_cfg) ==
    IF num_gray_used < 4 THEN 2 * fit_cfg.low_gray_bonus
    ELSE -(num_gray_used * fit_cfg.low_gray_bonus)

\* fitness_functions.py:48-51  in half units
GrayBonus(num_gray_used, fit_cfg) ==
    IF num_gray_used < 3 THEN 2 * fit_cfg.low_gray_bonus
    ELSE -(num_gray_used * fit_cfg.low_gray_bonus)

\* fitness_functions.py:45-51  gray-based bonus
GrayTerm(expr, forbidden, fit_cfg) ==
    GrayBonus(Cardinality({i \in 1..Len(expr) : expr[i] \in forbidden}), fit_cfg)

GreenTermOnce(expr, greens, fit_cfg) ==
    IF \E idx \in DOMAIN greens : idx < Len(expr) /\ expr[idx + 1] = greens[idx]
    THEN 2 * fit_cfg.green_bonus ELSE 0

\* fitness_functions.py:53-58  green bonus, once per known position reproduced
GreenTerm(expr, greens, fit_cfg) ==
    2 * fit_cfg.green_bonus *
        Cardinality({idx \in DOMAIN greens : idx < Len(expr) /\ expr[idx + 1] = greens[idx]})

\* fitness_functions.py:60-65  diversity bonus
DiversityTerm(expr, forbidden, fit_cfg) ==
    2 * fit_cfg.diversity_bonus_per_symbol * Cardinality(Range(expr) \ forbidden)

\* fitness_functions.py:67-69  history compatibility
ConsistencyTerm(compatible, fit_cfg) ==
    IF compatible = "False" THEN -2 * fit_cfg.history_incopatibility_penalty ELSE 0

RepeatTermValidOnly(expr, hist, fit_cfg) ==
    -2 * fit_cfg.repeat_guess_penalty *
        Cardinality({k \in 1..Len(hist) : hist[k].is_valid /\ hist[k].guess = expr})

\* fitness_functions.py:71-74  once per history entry with the same guess
RepeatTerm(expr, hist, fit_cfg) ==
    -2 * fit_cfg.repeat_guess_penalty *
        Cardinality({k \in 1..Len(hist) : hist[k].guess = expr})

NoTerms == [value |-> 0, gray |-> 0, green |-> 0, diversity |-> 0,
            consistency |-> 0, repeat |-> 0]

\* fitness_functions.py:44-74  the soft terms of a candidate within the tolerance
ScoreTerms(expr, hist, fit_cfg, diff, forbidden, compatible) ==
    [value |-> ValueTerm(diff, fit_cfg),
     gray |-> GrayTerm(expr, forbidden, fit_cfg),
     green |-> GreenTerm(expr, get_known_green_positions(hist), fit_cfg),
     diversity |-> DiversityTerm(expr, forbidden, fit_cfg),
     consistency |-> ConsistencyTerm(compatible, fit_cfg),
     repeat |-> RepeatTerm(expr, hist, fit_cfg)]

ScoreSum(terms) ==
    [raised |-> FALSE,
     fitness |-> Scored(terms.value + terms.gray + terms.green + terms.diversity
                        + terms.consistency + terms.repeat),
     terms |-> terms]

\* fitness_functions.py:67-75  the ValueError of compute_feedback leaves the function
ScoreChecked(expr, hist, fit_cfg, diff, compatible) ==
    IF compatible = "raise"
    THEN [raised |-> TRUE, fitness |-> Rejected, terms |-> NoTerms]
    ELSE ScoreSum(ScoreTerms(expr, hist, fit_cfg, diff, get_forbidden_symbols(hist),
                             compatible))

\* fitness_functions.py:35-75  diff = abs(value - target_value)
ScoreWithDiff(expr, hist, fit_cfg, diff) ==
    IF OutsideTolerance(diff, fit_cfg)
    THEN [raised |-> FALSE, fitness |-> Rejected, terms |-> NoTerms]
    ELSE ScoreChecked(expr, hist, fit_cfg, diff,
                      is_expr_compatible_with_history(expr, hist))

\* fitness_functions.py:28-75  e = what safe_eval_expression did
ScoreEvaluated(expr, target_value, hist, fit_cfg, e) ==
    IF ~e.ok THEN [raised |-> FALSE, fitness |-> Rejected, terms |-> NoTerms]
    ELSE ScoreWithDiff(expr, hist, fit_cfg, RatAbs(RatSub(e.v, target_value)))

\* score_expression: raised = an exception left the function; otherwise
\* fitness is the returned float, terms the summands it is made of.
score_expression(expr, target_value, hist, fit_cfg) ==
    ScoreEvaluated(expr, target_value, hist, fit_cfg, safe_eval_expression(expr))

(***************************************************************************)
(* evolution/genome.py, fitness/mathler_eval.py                            *)
(***************************************************************************)
\* Individual(genome): expr = None, fitness = float("-inf")
Individual(genome) == [genome |-> genome, expr |-> NoneValue, fitness |-> Rejected]

\* mathler_eval.py:36-39  raised: score_expression raised, nothing was stored
EvalScored(ind, expr, s) ==
    IF s.raised THEN [raised |-> TRUE, ind |-> ind]
    ELSE [raised |-> FALSE,
          ind |-> [genome |-> ind.genome, expr |-> expr, fitness |-> s.fitness]]

\* mathler_eval.py:27-39  d = what decode_genome_to_expr did
EvalDecoded(ind, target_value, hist, fit_cfg, d) ==
    IF ~d.ok
    THEN [raised |-> FALSE,
          ind |-> [genome |-> ind.genome, expr |-> NoneValue, fitness |-> Rejected]]
    ELSE EvalScored(ind, d.expr, score_expression(d.expr, target_value, hist, fit_cfg))

eval_individual(ind, target_value, hist, fit_cfg) ==
    EvalDecoded(ind, target_value, hist, fit_cfg, decode_genome_to_expr(ind.genome))

\* the individuals after eval_population; the loop ends at the first one whose
\* scoring raises, leaving it and the later ones as they were
EvalPacked(pop, evald) ==
    [raised |-> \E i \in 1..Len(pop) : evald[i].raised,
     population |-> [i \in 1..Len(pop) |->
                        IF \E j \in 1..i : evald[j].raised THEN pop[i]
                        ELSE evald[i].ind]]

\* eval_population(population) of make_eval_population_mathler
eval_population(pop, target_value, hist, fit_cfg) ==
    EvalPacked(pop, [i \in 1..Len(pop) |->
                        eval_individual(pop[i], target_value, hist, fit_cfg)])

(***************************************************************************)
(* evolution/selection.py, crossover.py, mutation.py                       *)
(*                                                                         *)
(* Rates and fractions are percentages.  A random draw is a choice among   *)
(* the outcomes the draw can have: random.random() is in [0, 1), so        *)
(* "random() < r" can be true iff r > 0 and false iff r < 1, and           *)
(* "random() > r" can be true iff r < 1 and false iff r >= 0.              *)
(***************************************************************************)
Max(a, b) == IF a > b THEN a ELSE b

\* int(fraction * n)
IntOfFraction(percent, n) == (percent * n) \div 100

\* pop[i] comes before pop[j] in sorted(pop, key=fitness, reverse=True), a stable sort
SortsBefore(pop, i, j) ==
    \/ FitnessGreater(pop[i].fitness, pop[j].fitness)
    \/ /\ ~FitnessGreater(pop[j].fitness, pop[i].fitness)
       /\ i < j

sort_by_fitness(pop) ==
    [r \in 1..Len(pop) |->
        pop[CHOOSE i \in 1..Len(pop) :
                Cardinality({j \in 1..Len(pop) : SortsBefore(pop, j, i)}) = r - 1]]

RECURSIVE MidChoices(_, _)
\* selection.py:33-36  each of mids is appended or not (random.random() < 0.5)
MidChoices(chosen, mids) ==
    IF Len(mids) = 0 THEN {chosen}
    ELSE MidChoices(Append(chosen, Head(mids)), Tail(mids))
             \cup MidChoices(chosen, Tail(mids))

\* selection.py:38-39
SurvivorsOrBest(chosen, pop_sorted) ==
    IF Len(chosen) = 0 THEN <<pop_sorted[1]>> ELSE chosen

\* a variant of SurvivorBands whose mid band reaches to the last rank
SurvivorBandsToTheEnd(pop_sorted, n_elite, n_mid) ==
    {SurvivorsOrBest(chosen, pop_sorted) :
        chosen \in MidChoices(SubSeq(pop_sorted, 1, Min(n_elite, Len(pop_sorted))),
                              SubSeq(pop_sorted, n_elite + 1, Len(pop_sorted)))}

\* selection.py:25-41  on the sorted population
SurvivorBands(pop_sorted, n_elite, n_mid) ==
    {SurvivorsOrBest(chosen, pop_sorted) :
        chosen \in MidChoices(SubSeq(pop_sorted, 1, Min(n_elite, Len(pop_sorted))),
                              SubSeq(pop_sorted, n_elite + 1,
                                     Min(n_elite + n_mid, Len(pop_sorted))))}

\* select_survivors: the survivor lists the call can return
select_survivors(pop, evo_cfg) ==
    IF Len(pop) = 0 THEN {<<>>}
    ELSE SurvivorBands(sort_by_fitness(pop),
                       Max(1, IntOfFraction(evo_cfg.elite_fraction, Len(pop))),
                       Max(0, IntOfFraction(evo_cfg.mid_fraction, Len(pop))))

\* a variant of TournamentWinners that returns any drawn candidate
TournamentCandidates(pop, k) ==
    {pop[i] : i \in {i \in 1..Len(pop) :
        \E sample \in SUBSET (1..Len(pop)) : Cardinality(sample) = k /\ i \in sample}}

\* the winners of the k-samples: max(candidates, key=fitness) over every
\* random.sample(pop, k), in every order of the sample
TournamentWinners(pop, k) ==
    {pop[i] : i \in {i \in 1..Len(pop) :
        \E sample \in SUBSET (1..Len(pop)) :
            /\ Cardinality(sample) = k
            /\ i \in sample
            /\ \A j \in sample : ~FitnessGreater(pop[j].fitness, pop[i].fitness)}}

\* selection.py:47-48  "if not pop: raise ValueError"
TournamentRaises(pop) == Len(pop) = 0

\* tournament_select, for a non-empty pop and k >= 1
tournament_select(pop, k) == TournamentWinners(pop, Min(k, Len(pop)))

\* a variant of CrossAt whose second child keeps its own tail
CrossAtOneTail(g1, g2, point) ==
    << SubSeq(g1, 1, point) \o SubSeq(g2, point + 1, Len(g2)), g2 >>

\* crossover.py:20-23
CrossAt(g1, g2, point) ==
    << SubSeq(g1, 1, point) \o SubSeq(g2, point + 1, Len(g2)),
       SubSeq(g2, 1, point) \o SubSeq(g1, point + 1, Len(g1)) >>

\* a variant of CrossoverRaises that refuses only a shorter first parent
CrossoverRaisesShorterFirst(g1, g2) == Len(g1) < Len(g2)

\* crossover.py:14-15  "if len(g1) != len(g2): raise ValueError"
CrossoverRaises(g1, g2) == Len(g1) # Len(g2)

\* one_point_crossover, for genomes of equal length: the pairs it can return
one_point_crossover(g1, g2, evo_cfg) ==
    (IF Len(g1) < 2 \/ evo_cfg.crossover_rate < 100 THEN {<<g1, g2>>} ELSE {})
    \cup (IF Len(g1) >= 2 /\ evo_cfg.crossover_rate >= 0
          THEN {CrossAt(g1, g2, point) : point \in 1..(Len(g1) - 1)}
          ELSE {})

\* the values random.randint(0, 255) is drawn from in this model
CodonDraws == {0, 255}

\* mutation.py:22-23  what one codon can become
CodonOutcomes(codon, rate) == (IF rate < 100 THEN {codon} ELSE {}) \cup CodonDraws

\* mutate_genome: the genomes it can return
mutate_genome(genome, evo_cfg) ==
    IF evo_cfg.mutation_rate <= 0 THEN {genome}
    ELSE {new \in [1..Len(genome) -> CodonDraws \cup Range(genome)] :
            \A i \in 1..Len(genome) :
                new[i] \in CodonOutcomes(genome[i], evo_cfg.mutation_rate)}

\* mutation.py:36-40  the 0-based indices codon_to_mutate can take
HardMutateIndices(len, evo_cfg) ==
    (IF 2 * evo_cfg.mutation_rate > 0 THEN 0..(evo_cfg.min_char_index - 1) ELSE {})
    \cup (IF 2 * evo_cfg.mutation_rate < 100
          THEN evo_cfg.min_char_index..(len - 1) ELSE {})

\* mutation.py:41  genome[codon_to_mutate] += 1
BumpCodon(genome, codon_to_mutate) ==
    [genome EXCEPT ![codon_to_mutate + 1] = @ + 1]

\* hard_mutate_genome: the genomes it can leave in place
hard_mutate_genome(genome, evo_cfg) ==
    {BumpCodon(genome, i) : i \in HardMutateIndices(Len(genome), evo_cfg)}

(***************************************************************************)
(* fitness/constraints.py : enforce_uniqueness                             *)
(***************************************************************************)
SeenBeforeAlways(expr, seen) == TRUE

\* constraints.py:75  not (ind.expr not in seen)
SeenBefore(expr, seen) == expr \in seen

RECURSIVE UniquenessScan(_, _, _, _)
\* constraints.py:74-80  the scan from individual i on; expr is the phenotype
\* stored by the evaluation before the pass (None included)
UniquenessScan(pop, i, seen, evo_cfg) ==
    IF i > Len(pop) THEN {pop}
    ELSE IF ~SeenBefore(pop[i].expr, seen)
    THEN UniquenessScan(pop, i + 1, seen \cup {pop[i].expr}, evo_cfg)
    ELSE UNION {UniquenessScan([pop EXCEPT ![i].genome = g], i + 1, seen, evo_cfg) :
                    g \in hard_mutate_genome(pop[i].genome, evo_cfg)}

\* a variant of enforce_uniqueness that takes the first phenotype as seen
enforce_uniqueness_first_seen(pop, evo_cfg) ==
    UniquenessScan(pop, 1, {pop[1].expr}, evo_cfg)

\* enforce_uniqueness: the populations it can return
enforce_uniqueness(pop, evo_cfg) == UniquenessScan(pop, 1, {}, evo_cfg)

(***************************************************************************)
(* Codec calls: decode a genome, encode the phenotype at some length,      *)
(* decode the encoded genome.                                              *)
(***************************************************************************)
MaxGenomeLen == 2

MaxPad == 2

SmallCap == 8

CodonInputs == {0, 1, 2, 3, 255}

RECURSIVE SeqsUpTo(_, _)
\* all sequences over S of length at most n
SeqsUpTo(S, n) ==
    IF n = 0 THEN {<<>>}
    ELSE LET shorter == SeqsUpTo(S, n - 1)
         IN  shorter \cup {Append(q, x) : q \in {t \in shorter : Len(t) = n - 1}, x \in S}

\* the leftmost derivations of the phenotypes of tests/test_grammar.py:18-23
TestGenomes ==
    { <<1, 0, 1, 0, 0, 0, 0, 1, 1, 2, 1, 3, 1, 4>>,     \* 1+2345
      <<2, 2, 0, 0, 0, 1, 1, 0, 1, 2, 2, 1, 3>>,        \* 12+3*4
      <<2, 0, 0, 1, 0, 0, 1, 1, 0, 2, 0, 2, 1, 3>>,     \* 1+2*34
      <<2, 1, 0, 1, 0, 0, 2, 0, 1, 1, 2, 0, 1, 3>> }    \* 1*23+4

\* genomes longer than their derivation: the last codons are never read
PaddedGenomes == {g \o <<255, 3>> : g \in TestGenomes}

GenomeInputs == SeqsUpTo(CodonInputs, MaxGenomeLen) \cup TestGenomes \cup PaddedGenomes

MaxExpansionsInputs == {0, SmallCap, DefaultMaxExpansions}

\* genome lengths tried for a derivation of n choices: below, at and above n,
\* and far enough above for the tiling to repeat the recorded codons
LengthsFor(n) == (1..(n + MaxPad)) \cup {k * n + r : k \in 2..3, r \in 0..MaxPad}

NoDecode == [ok |-> FALSE, expr |-> NoneValue, expansions |-> 0]

NoEncode == EncodeRaise("")

\* the solver is not running
SolverIdle ==
    /\ cfg = <<>>
    /\ population = <<>>
    /\ history = <<>>
    /\ guess_idx = 0
    /\ gen_idx = 0
    /\ pc = "idle"
    /\ survivors = <<>>
    /\ new_pop = <<>>
    /\ existing_genomes = {}

NoGame == [secret_expr |-> <<>>, target_value |-> RatInt(0), max_guesses |-> 0,
           history |-> <<>>]

CodecInit ==
    /\ cpc = "start"
    /\ \E g \in GenomeInputs, m \in MaxExpansionsInputs :
          call = [genome |-> g, max_expansions |-> m, genome_length |-> 0]
    /\ ret = [dec |-> NoDecode, enc |-> NoEncode, redec |-> NoDecode]
    /\ game = NoGame
    /\ SolverIdle

CodecDecode ==
    /\ cpc = "start"
    /\ ret' = [ret EXCEPT !.dec = DecodeOutcome(call.genome, call.max_expansions)]
    /\ cpc' = "decoded"
    /\ UNCHANGED <<call, game, svars>>

CodecEncode ==
    /\ cpc = "decoded"
    /\ ret.dec.ok
    /\ \E L \in LengthsFor(ret.dec.expansions) :
          /\ call' = [call EXCEPT !.genome_length = L]
          /\ ret' = [ret EXCEPT !.enc = encode_expr_to_genome(ret.dec.expr, L)]
    /\ cpc' = "encoded"
    /\ UNCHANGED <<game, svars>>

CodecRedecode ==
    /\ cpc = "encoded"
    /\ ret.enc.ok
    /\ ret' = [ret EXCEPT !.redec = decode_genome_to_expr(ret.enc.genome)]
    /\ cpc' = "redecoded"
    /\ UNCHANGED <<call, game, svars>>

CodecNext == CodecDecode \/ CodecEncode \/ CodecRedecode

SpecCodec == CodecInit /\ [][CodecNext]_vars

\* C4: for a phenotype p of the language (here: the result of a completed
\* decode, whose expansions are the choices of p's leftmost derivation) and a
\* genome length L at or above that number of choices, encode_expr_to_genome
\* succeeds and returns exactly L codons, and decoding them gives p back.
C4_RoundTripAtOrAbove ==
    (cpc \in {"encoded", "redecoded"} /\ call.genome_length >= ret.dec.expansions)
        => /\ ret.enc.ok
           /\ Len(ret.enc.genome) = call.genome_length
           /\ cpc = "redecoded" => (ret.redec.ok /\ ret.redec.expr = ret.dec.expr)

\* a tiled encoding (L above twice the derivation length) decoded back to p
C4_Witness ==
    /\ cpc = "redecoded"
    /\ call.genome_length > 2 * ret.dec.expansions
    /\ Len(ret.enc.genome) = call.genome_length
    /\ ret.redec.ok
    /\ ret.redec.expr = ret.dec.expr

\* C5: for a phenotype p of the language and a genome length L with
\* 1 <= L < the number of choices of p's leftmost derivation, decoding the
\* (truncated) encoding gives p back.
C5_RoundTripBelow ==
    (cpc = "redecoded" /\ call.genome_length >= 1
                       /\ call.genome_length < ret.dec.expansions)
        => (ret.redec.ok /\ ret.redec.expr = ret.dec.expr)

DecodeResultWellFormed(d, max_expansions) ==
    /\ d.expansions <= max_expansions
    /\ d.ok => /\ Len(d.expr) = ExprWidth
               /\ \A i \in 1..Len(d.expr) : d.expr[i] \in TERMINALS
    /\ ~d.ok => d.expr = NoneValue

\* C6: decode_genome_to_expr applies at most max_expansions productions and
\* either raises MappingError or returns a string of terminals of exactly the
\* puzzle width; the empty genome raises MappingError.
C6_DecodeOutcome ==
    /\ cpc # "start" =>
          /\ DecodeResultWellFormed(ret.dec, call.max_expansions)
          /\ Len(call.genome) = 0 => ~ret.dec.ok
    /\ cpc = "redecoded" => DecodeResultWellFormed(ret.redec, DefaultMaxExpansions)

\* a non-empty genome whose derivation was cut off by the expansion cap
C6_Witness ==
    /\ cpc = "decoded"
    /\ Len(call.genome) > 0
    /\ call.max_expansions > 0
    /\ ~ret.dec.ok
    /\ ret.dec.expansions = call.max_expansions

(***************************************************************************)
(* Feedback calls: compute_feedback on two strings.                        *)
(***************************************************************************)
MaxFeedbackLen == 3

FeedbackAlphabet == {"1", "2", "+"}

FeedbackStrings == SeqsUpTo(FeedbackAlphabet, MaxFeedbackLen)

FeedbackInit ==
    /\ cpc = "start"
    /\ \E g \in FeedbackStrings, x \in FeedbackStrings : call = [guess |-> g, secret |-> x]
    /\ ret = [raised |-> FALSE, feedback |-> <<>>]
    /\ game = NoGame
    /\ SolverIdle

FeedbackCall ==
    /\ cpc = "start"
    /\ ret' = compute_feedback(call.guess, call.secret)
    /\ cpc' = "returned"
    /\ UNCHANGED <<call, game, svars>>

FeedbackNext == FeedbackCall

SpecFeedback == FeedbackInit /\ [][FeedbackNext]_vars

\* C12: for equal-length strings the feedback has the secret's length;
\* position i is GREEN iff guess[i] = secret[i], otherwise YELLOW iff guess[i]
\* occurs anywhere in the secret, otherwise GRAY; so feedback(s, s) is all
\* GREEN, it is all GRAY when the strings share no character, and it has no
\* GRAY when every character of the guess occurs in the secret.
C12_FeedbackByPosition ==
    (cpc = "returned" /\ Len(call.guess) = Len(call.secret)) =>
        /\ ~ret.raised
        /\ Len(ret.feedback) = Len(call.secret)
        /\ \A i \in 1..Len(call.secret) :
              /\ ret.feedback[i] \in {"GREEN", "YELLOW", "GRAY"}
              /\ ret.feedback[i] = "GREEN" <=> call.guess[i] = call.secret[i]
              /\ ret.feedback[i] = "YELLOW" <=>
                    /\ call.guess[i] # call.secret[i]
                    /\ call.guess[i] \in Range(call.secret)
        /\ call.guess = call.secret =>
              \A i \in 1..Len(ret.feedback) : ret.feedback[i] = "GREEN"
        /\ Range(call.guess) \cap Range(call.secret) = {} =>
              \A i \in 1..Len(ret.feedback) : ret.feedback[i] = "GRAY"
        /\ Range(call.guess) \subseteq Range(call.secret) =>
              \A i \in 1..Len(ret.feedback) : ret.feedback[i] # "GRAY"

\* a guess whose repeated character is GREEN at one position and YELLOW at
\* another, although the secret holds it once, next to a GRAY
C12_Witness ==
    /\ cpc = "returned"
    /\ Len(call.guess) = 3
    /\ ~ret.raised
    /\ ret.feedback = <<"GREEN", "YELLOW", "GRAY">>
    /\ call.guess[1] = call.guess[2]
    /\ Cardinality({j \in 1..3 : call.secret[j] = call.guess[1]}) = 1

(***************************************************************************)
(* Game calls: MathlerGame.make_guess is called on a constructed game with *)
(* arbitrary strings, as often as the caller likes.  The engine has no     *)
(* check of its own on the number of calls; MaxEntries caps the history    *)
(* of the model.                                                           *)
(***************************************************************************)
MaxEntries == 3

GameMaxGuesses == {1, 2}

\* "2+3*4" = 14 (tests/test_engine.py) and "1+2+3+45" = 51
GameSecrets == {<<"2", "+", "3", "*", "4">>, <<"1", "+", "2", "+", "3", "+", "4", "5">>}

\* the secrets, a valid guess of the right value for each, a wrong value, an
\* illegal character, a division by zero, a syntax error, a short guess,
\* and the integers 10 ** 4299 (4300 digits) and 10 ** 4300 (4301 digits)
GameGuessInputs ==
    GameSecrets \cup
    {<<"3", "*", "4", "+", "2">>, <<"4", "5", "+", "3", "+", "2", "+", "1">>,
     <<"2", "+", "2", "+", "2">>, <<"a", "+", "3", "*", "4">>,
     <<"9", "/", "0", "+", "5">>, <<"2", "+", "3", "*", "*">>,
     <<"2", "+", "3">>,
     <<"1", "0", "*", "*", "4", "2", "9", "9">>, <<"1", "0", "*", "*", "4", "3", "0", "0">>}

NoResult == InvalidResult(<<>>, NoValue, "None")

GameInit ==
    /\ cpc = "constructed"
    /\ \E s \in GameSecrets, m \in GameMaxGuesses : game = from_secret_expr(s, m)
    /\ call = [guess_expr |-> <<>>]
    /\ ret = [raised |-> FALSE, result |-> NoResult]
    /\ SolverIdle

\* one MathlerGame.make_guess call: it returns its GuessResult or raises
GameGuess ==
    /\ Len(game.history) < MaxEntries
    /\ \E g \in GameGuessInputs :
          /\ call' = [guess_expr |-> g]
          /\ game' = make_guess(game, g)
          /\ ret' = IF GuessRaises(game, g)
                    THEN [raised |-> TRUE, result |-> NoResult]
                    ELSE [raised |-> FALSE, result |-> GuessOutcome(game, g)]
    /\ cpc' = "guessed"
    /\ UNCHANGED svars

GameNext == GameGuess

SpecGame == GameInit /\ [][GameNext]_vars

\* C13: every make_guess call appends exactly one outcome to the history and
\* takes guesses_remaining() down by exactly one, whether the guess is valid
\* or not; a guess whose length differs from the secret's gives an outcome that
\* is not valid, not correct, has empty feedback and an error reason, and does
\* not make the game solved.
C13_EachCallAppendsOne ==
    [][cpc' = "guessed" =>
          /\ Len(game'.history) = Len(game.history) + 1
          /\ guesses_remaining(game') = guesses_remaining(game) - 1
          /\ game'.history[Len(game'.history)] = ret'.result
          /\ Len(call'.guess_expr) # Len(game.secret_expr) =>
                 /\ ~ret'.result.is_valid
                 /\ ~ret'.result.is_correct
                 /\ ret'.result.feedback = <<>>
                 /\ ret'.result.error = "length"
                 /\ is_solved(game') = is_solved(game)]_vars

\* the part of C13 that holds: a call that returns appends its outcome and
\* takes one attempt, and a guess of another length is recorded as invalid
C13_ReturningCallAppendsOne ==
    [][(cpc' = "guessed" /\ ~ret'.raised) =>
          /\ game'.history = Append(game.history, ret'.result)
          /\ guesses_remaining(game') = guesses_remaining(game) - 1
          /\ Len(call'.guess_expr) # Len(game.secret_expr) =>
                 /\ ~ret'.result.is_valid
                 /\ ~ret'.result.is_correct
                 /\ ret'.result.feedback = <<>>
                 /\ ret'.result.error = "length"
                 /\ is_solved(game') = is_solved(game)]_vars

\* a call of make_guess has raised: the history kept its length
C13_RaisedCall == cpc = "guessed" /\ ret.raised /\ Len(game.history) = 0

\* the four conditions of a valid guess, on the submitted string
MeetsValidity(g, guess_expr) ==
    /\ Len(guess_expr) = Len(g.secret_expr)
    /\ \A i \in 1..Len(guess_expr) :
          guess_expr[i] \in Digits \cup {"+", "-", "*", "/"}
    /\ safe_eval_expression(guess_expr).ok
    /\ safe_eval_expression(guess_expr).v = g.target_value

OutcomeShape(g, r) ==
    /\ r.is_valid <=> MeetsValidity(g, r.guess)
    /\ ~r.is_valid => r.feedback = <<>> /\ r.error # "None"
    /\ r.is_valid => Len(r.feedback) = Len(g.secret_expr) /\ r.error = "None"

\* C14: make_guess marks an outcome valid iff the guess has the secret's
\* length, uses only the characters 0-9 + - * /, evaluates without error and
\* has exactly the target's value; an invalid outcome has empty feedback and
\* an error reason and is returned, no exception reaches the caller; a valid
\* outcome has feedback of the secret's length and no error.
C14_ValidExactlyWhen ==
    cpc = "guessed" =>
        /\ ~ret.raised
        /\ ret.result.guess = call.guess_expr
        /\ OutcomeShape(game, ret.result)

\* the part of C14 that holds: the outcome of every call that returns, and
\* every entry of the history, is valid exactly under the four conditions
C14_ReturnedOutcomeShape ==
    /\ (cpc = "guessed" /\ ~ret.raised) =>
           ret.result.guess = call.guess_expr /\ OutcomeShape(game, ret.result)
    /\ \A k \in 1..Len(game.history) : OutcomeShape(game, game.history[k])

AllGreen(r) == \A i \in 1..Len(r.feedback) : r.feedback[i] = "GREEN"

CorrectShape(g, r) ==
    /\ r.is_correct <=> r.guess = g.secret_expr
    /\ r.is_correct => r.is_valid /\ AllGreen(r)
    /\ (r.is_valid /\ AllGreen(r)) => r.is_correct

\* C15: an outcome is marked correct iff the submitted string is the secret;
\* a correct outcome is valid with all-GREEN feedback and a valid outcome
\* with all-GREEN feedback is correct; submitting the secret of a constructed
\* game is always valid and correct; once a correct outcome is in the
\* history, is_solved() stays true after every later call.
C15_CorrectExactlySecret ==
    [][/\ \A k \in 1..Len(game'.history) : CorrectShape(game', game'.history[k])
       /\ (cpc' = "guessed" /\ call'.guess_expr = game.secret_expr) =>
              /\ ~ret'.raised
              /\ ret'.result.is_valid /\ ret'.result.is_correct
              /\ game'.history = Append(game.history, ret'.result)
       /\ is_solved(game') <=>
              \/ is_solved(game)
              \/ cpc' = "guessed" /\ call'.guess_expr = game.secret_expr]_vars

\* the secret was submitted first and two more guesses were recorded after
\* it, one of them valid with the target's value but not the secret
C15_Witness ==
    /\ Len(game.history) = 3
    /\ game.history[1].is_correct
    /\ game.history[2].is_valid /\ ~game.history[2].is_correct
    /\ ~AllGreen(game.history[2])
    /\ ~game.history[3].is_valid
    /\ is_solved(game)

\* C16: solved and exhausted are terminal: over any sequence of make_guess
\* calls the history never has more than max_guesses entries,
\* guesses_remaining() is never negative, and nothing is recorded once the
\* game is solved or max_guesses attempts have been made.
C16_TerminalStates ==
    [][/\ Len(game'.history) <= game'.max_guesses
       /\ guesses_remaining(game') >= 0
       /\ (is_solved(game) \/ Len(game.history) >= game.max_guesses) =>
              game'.history = game.history]_vars

\* an outcome was recorded after the game was solved, beyond max_guesses
C16_RecordedAfterSolved ==
    /\ Len(game.history) = 3
    /\ game.history[1].is_correct
    /\ game.max_guesses = 2
    /\ guesses_remaining(game) = -1

(***************************************************************************)
(* Evaluator calls: a game on a secret is played with arbitrary guesses,   *)
(* then two candidates are scored against its history.                     *)
(***************************************************************************)
MaxHistory == 2

\* the secret of the end-to-end test and of test_sandbox.py: "2+3*4" = 14
FitSecrets == {<<"2", "+", "3", "*", "4">>}

\* guesses: correct, valid, valid all-YELLOW, valid with GRAYs, wrong value,
\* wrong length
GuessInputs ==
    {<<"2", "+", "3", "*", "4">>,
     <<"2", "+", "4", "*", "3">>,
     <<"3", "*", "4", "+", "2">>,
     <<"7", "+", "7", "+", "0">>,
     <<"2", "+", "2", "+", "2">>,
     <<"2", "+", "3">>}

\* candidates: well-valued, near the target, outside the tolerance
\* ("9*9*9"), malformed ("2+3*"), dividing by zero ("1/0+2"), of another
\* length and exactly error_tolerance away ("12+3*4" = 24), made of the
\* symbols of "7+7+0" three and four times over ("7+7-7", "77-70")
CandidateInputs ==
    {<<"2", "+", "3", "*", "4">>,
     <<"2", "+", "4", "*", "3">>,
     <<"3", "*", "4", "+", "2">>,
     <<"4", "*", "3", "+", "2">>,
     <<"2", "+", "5", "*", "1">>,
     <<"1", "+", "5", "*", "2">>,
     <<"7", "+", "7", "+", "0">>,
     <<"7", "+", "0", "+", "7">>,
     <<"2", "+", "2", "+", "2">>,
     <<"4", "+", "4", "+", "4">>,
     <<"9", "*", "9", "*", "9">>,
     <<"2", "+", "3", "*">>,
     <<"1", "/", "0", "+", "2">>,
     <<"1", "2", "+", "3", "*", "4">>,
     <<"7", "+", "7", "-", "7">>,
     <<"7", "7", "-", "7", "0">>}

GreenBonusInputs == {0, 2}

RepeatPenaltyInputs == {0, 5}

FitConfigs ==
    {[error_tolerance |-> 10, wrong_value_penalty |-> 1, low_gray_bonus |-> 4,
      green_bonus |-> gb, diversity_bonus_per_symbol |-> 1,
      history_incopatibility_penalty |-> 3, repeat_guess_penalty |-> rgp] :
     gb \in GreenBonusInputs, rgp \in RepeatPenaltyInputs}

NoScore == [raised |-> FALSE, fitness |-> Rejected, terms |-> NoTerms]

FitInit ==
    /\ cpc = "play"
    /\ \E s \in FitSecrets : game = from_secret_expr(s, MaxHistory)
    /\ \E c \in FitConfigs : call = [a |-> <<>>, b |-> <<>>, fit_cfg |-> c]
    /\ ret = [a |-> NoScore, b |-> NoScore]
    /\ SolverIdle

\* one MathlerGame.make_guess call
FitGuess ==
    /\ cpc = "play"
    /\ Len(game.history) < MaxHistory
    /\ \E g \in GuessInputs : game' = make_guess(game, g)
    /\ UNCHANGED <<call, ret, cpc, svars>>

\* two score_expression calls on the same target, history and configuration
FitScore ==
    /\ cpc = "play"
    /\ \E a \in CandidateInputs, b \in CandidateInputs :
          /\ call' = [call EXCEPT !.a = a, !.b = b]
          /\ ret' = [a |-> score_expression(a, game.target_value, game.history,
                                            call.fit_cfg),
                     b |-> score_expression(b, game.target_value, game.history,
                                            call.fit_cfg)]
    /\ cpc' = "scored"
    /\ UNCHANGED <<game, svars>>

FitNext == FitGuess \/ FitScore

SpecFitness == FitInit /\ [][FitNext]_vars

\* what C9 says of one call: expr scored against target_value giving result r
RejectedExactlyWhen(expr, target_value, fit_cfg, r) ==
    LET e == safe_eval_expression(expr)
        outside == e.ok /\ RatLess(RatInt(fit_cfg.error_tolerance),
                                   RatAbs(RatSub(e.v, target_value)))
    IN  /\ (~e.ok \/ outside) => (~r.raised /\ r.fitness = Rejected)
        /\ (~r.raised /\ r.fitness = Rejected) => (~e.ok \/ outside)

GreenCount(expr, hist) ==
    Cardinality({i \in 1..Len(expr) :
                    \E k \in 1..Len(hist) :
                        /\ hist[k].is_valid
                        /\ i <= Len(hist[k].feedback)
                        /\ hist[k].feedback[i] = "GREEN"
                        /\ hist[k].guess[i] = expr[i]})

\* both candidates got a real score and differ at most in the green term
EqualButGreen ==
    /\ cpc = "scored"
    /\ ~ret.a.raised /\ ~ret.b.raised
    /\ ret.a.fitness # Rejected /\ ret.b.fitness # Rejected
    /\ [ret.a.terms EXCEPT !.green = 0] = [ret.b.terms EXCEPT !.green = 0]

\* C10 as stated: of two candidates within the tolerance and equal in every
\* other score term, the one reproducing more confirmed-GREEN positions has
\* the strictly higher score.
C10_MoreGreensStrictlyHigher ==
    (EqualButGreen /\ GreenCount(call.a, game.history) > GreenCount(call.b, game.history))
        => FitnessGreater(ret.a.fitness, ret.b.fitness)

\* C10 amended: the same, for a configuration whose green_bonus is positive.
C10_MoreGreensStrictlyHigherPositiveBonus ==
    (/\ EqualButGreen
     /\ call.fit_cfg.green_bonus > 0
     /\ GreenCount(call.a, game.history) > GreenCount(call.b, game.history))
        => FitnessGreater(ret.a.fitness, ret.b.fitness)

\* two candidates equal but for reproducing 3 and 2 confirmed GREENs, the
\* first scored higher under a positive green_bonus
C10_Witness ==
    /\ EqualButGreen
    /\ call.fit_cfg.green_bonus > 0
    /\ GreenCount(call.a, game.history) > GreenCount(call.b, game.history)
    /\ GreenCount(call.b, game.history) > 0
    /\ FitnessGreater(ret.a.fitness, ret.b.fitness)

\* number of History entries, valid or not, whose guess is the string expr
RepeatCount(expr, hist) == Cardinality({k \in 1..Len(hist) : hist[k].guess = expr})

\* both candidates got a real score, a repeats a submitted guess, b repeats
\* none, and they differ at most in the repeat term
RepeatAgainstFresh ==
    /\ cpc = "scored"
    /\ ~ret.a.raised /\ ~ret.b.raised
    /\ ret.a.fitness # Rejected /\ ret.b.fitness # Rejected
    /\ RepeatCount(call.a, game.history) >= 1
    /\ RepeatCount(call.b, game.history) = 0
    /\ [ret.a.terms EXCEPT !.repeat = 0] = [ret.b.terms EXCEPT !.repeat = 0]

\* C11 as stated: a candidate equal to the guess of some History entry (valid
\* or invalid) scores strictly lower than a candidate equal to no entry and
\* equal in every other score term.
C11_RepeatStrictlyLower ==
    RepeatAgainstFresh => FitnessLess(ret.a.fitness, ret.b.fitness)

\* C11 amended: the same for a configuration whose repeat_guess_penalty is
\* positive; and for every configuration the repeat term is the penalty taken
\* once per History entry, valid or invalid, whose guess equals the candidate.
C11_RepeatLowerPositivePenalty ==
    /\ (RepeatAgainstFresh /\ call.fit_cfg.repeat_guess_penalty > 0)
           => FitnessLess(ret.a.fitness, ret.b.fitness)
    /\ (cpc = "scored" /\ ~ret.a.raised /\ ret.a.fitness # Rejected)
           => ret.a.terms.repeat = -2 * call.fit_cfg.repeat_guess_penalty
                                      * RepeatCount(call.a, game.history)

\* a candidate submitted twice before, both times invalid, is scored two
\* penalties below a fresh candidate equal in every other term
C11_Witness ==
    /\ RepeatAgainstFresh
    /\ call.fit_cfg.repeat_guess_penalty > 0
    /\ RepeatCount(call.a, game.history) = 2
    /\ \A k \in 1..Len(game.history) : ~game.history[k].is_valid
    /\ ret.b.fitness.v - ret.a.fitness.v = 4 * call.fit_cfg.repeat_guess_penalty

\* the feedback of some valid entry, simulated with expr as the secret,
\* differs from the recorded feedback
FeedbackDiffers(expr, hist) ==
    \E k \in 1..Len(hist) :
        /\ hist[k].is_valid
        /\ ~compute_feedback(hist[k].guess, expr).raised
        /\ compute_feedback(hist[k].guess, expr).feedback # hist[k].feedback

WithinTolerance(expr, target_value, fit_cfg) ==
    /\ safe_eval_expression(expr).ok
    /\ ~RatLess(RatInt(fit_cfg.error_tolerance),
                RatAbs(RatSub(safe_eval_expression(expr).v, target_value)))

\* the secret is compatible with the history of its own game and, scored,
\* carries no inconsistency penalty
SecretCompatible ==
    /\ is_expr_compatible_with_history(game.secret_expr, game.history) = "True"
    /\ (cpc = "scored" /\ call.a = game.secret_expr) =>
           /\ ~ret.a.raised /\ ret.a.fitness # Rejected
           /\ ret.a.terms.consistency = 0

AddGenome(st, genome) ==
    [new_pop |-> Append(st.new_pop, Individual(genome)),
     existing_genomes |-> st.existing_genomes \cup {genome}]

RECURSIVE AddElites(_, _, _)
\* evolution_loop.py:88-93  copy the elites, skipping a genome already copied
AddElites(st, elites, k) ==
    IF k > Len(elites) THEN st
    ELSE IF elites[k].genome \in st.existing_genomes
    THEN AddElites(st, elites, k + 1)
    ELSE AddElites(AddGenome(st, elites[k].genome), elites, k + 1)

\* a variant of StartNewPop that passes every elite genome through hard mutation
StartNewPopMutated(survivor_list, evo_cfg, pop_size) ==
    AddElites([new_pop |-> <<>>, existing_genomes |-> {}],
              [k \in 1..Min(Len(survivor_list),
                            Max(1, IntOfFraction(evo_cfg.elite_fraction, pop_size))) |->
                  [sort_by_fitness(survivor_list)[k] EXCEPT
                      !.genome = BumpCodon(@, Len(@) - 1)]],
              1)

\* evolution_loop.py:82-93  new_pop and existing_genomes before the refill loop
StartNewPop(survivor_list, evo_cfg, pop_size) ==
    AddElites([new_pop |-> <<>>, existing_genomes |-> {}],
              SubSeq(sort_by_fitness(survivor_list), 1,
                     Min(Len(survivor_list),
                         Max(1, IntOfFraction(evo_cfg.elite_fraction, pop_size)))),
              1)

PopulationFullNever(st, pop_size) == FALSE

\* evolution_loop.py:105  if len(new_pop) >= pop_size: break
PopulationFull(st, pop_size) == Len(st.new_pop) >= pop_size

\* a variant of RetryAdded that keeps the re-mutated child whatever it is
RetryAddedUnchecked(st, genome) == AddGenome(st, genome)

\* evolution_loop.py:111-115  the extra mutation of a duplicate child
RetryAdded(st, genome) ==
    IF genome \in st.existing_genomes THEN st ELSE AddGenome(st, genome)

\* evolution_loop.py:104-118  one child of the pair
ChildAdded(st, child_genome, evo_cfg, pop_size) ==
    IF PopulationFull(st, pop_size) THEN {st}
    ELSE IF child_genome \in st.existing_genomes
    THEN {RetryAdded(st, g) : g \in mutate_genome(child_genome, evo_cfg)}
    ELSE {AddGenome(st, child_genome)}

\* evolution_loop.py:104-118  both children, in order
PairAdded(st, pair, evo_cfg, pop_size) ==
    UNION {ChildAdded(st1, pair[2], evo_cfg, pop_size) :
              st1 \in ChildAdded(st, pair[1], evo_cfg, pop_size)}

\* evolution_loop.py:100-102  crossover of the parents, then one mutation each
Offspring(p1, p2, evo_cfg) ==
    UNION {mutate_genome(pair[1], evo_cfg) \X mutate_genome(pair[2], evo_cfg) :
              pair \in one_point_crossover(p1.genome, p2.genome, evo_cfg)}

\* evolution_loop.py:97-102  the child pairs one iteration can breed
Bred(survivor_list, evo_cfg) ==
    UNION {Offspring(parents[1], parents[2], evo_cfg) :
              parents \in tournament_select(survivor_list, evo_cfg.tournament_size)
                          \X tournament_select(survivor_list, evo_cfg.tournament_size)}

\* evolution_loop.py:96-118  what one iteration of the refill loop can leave
RefillOutcomes(st, survivor_list, evo_cfg, pop_size) ==
    UNION {PairAdded(st, pair, evo_cfg, pop_size) : pair \in Bred(survivor_list, evo_cfg)}

\* evolution_loop.py:46-47  enforce_uniqueness and the re-evaluation
Reevaluated(first, target_value, hist, gcfg) ==
    IF first.raised THEN {first}
    ELSE {eval_population(pop, target_value, hist, gcfg.fitness) :
             pop \in enforce_uniqueness(first.population, gcfg.evolution)}

\* evolution_loop.py:43-47  evaluation, de-duplication pass, re-evaluation
DedupPass(pop, target_value, hist, gcfg) ==
    Reevaluated(eval_population(pop, target_value, hist, gcfg.fitness),
                target_value, hist, gcfg)

(***************************************************************************)
(* solver/solver.py : solve_mathler_with_evolution                         *)
(***************************************************************************)
FALLBACK_GUESS == <<"0", "+", "0", "+", "0">>

RECURSIVE last_valid_guess(_)
\* solver.py:96-100  the guess of the last valid entry, or None
last_valid_guess(hist) ==
    IF Len(hist) = 0 THEN NoneValue
    ELSE IF hist[Len(hist)].is_valid THEN hist[Len(hist)].guess
    ELSE last_valid_guess(SubSeq(hist, 1, Len(hist) - 1))

\* a variant of Eligible that scans the whole ranking
EligibleAnyRank(ranked, last_valid) ==
    {i \in 1..Len(ranked) :
        /\ ranked[i].expr # NoneValue
        /\ last_valid = NoneValue \/ ranked[i].expr # last_valid}

\* solver.py:107-113  the ranks among the top 5 that may be taken
Eligible(ranked, last_valid) ==
    {i \in 1..Min(5, Len(ranked)) :
        /\ ranked[i].expr # NoneValue
        /\ last_valid = NoneValue \/ ranked[i].expr # last_valid}

\* solver.py:106-117  the first eligible one, else the best anyway
Candidate(ranked, eligible) ==
    IF eligible = {} THEN ranked[1]
    ELSE ranked[CHOOSE i \in eligible : \A j \in eligible : i <= j]

\* solver.py:120
GuessExprOf(best) == IF best.expr # NoneValue THEN best.expr ELSE FALLBACK_GUESS

\* solver.py:103-120, on the ranked population
GuessFromRanked(ranked, last_valid) ==
    GuessExprOf(Candidate(ranked, Eligible(ranked, last_valid)))

\* solver.py:95-120  the guess the slot submits, for a non-empty evaluated population
ChosenGuess(pop, hist) == GuessFromRanked(sort_by_fitness(pop), last_valid_guess(hist))

Last(q) == q[Len(q)]

\* solver.py:81  the first position of a guess slot
SlotStart(gcfg) ==
    IF gcfg.evolution.generations_per_guess > 0 THEN "generation" ELSE "guess"

\* solver.py:66  "for guess_idx in range(game.max_guesses)": without a guess
\* slot the loop body never runs and the empty history is returned
LoopStart(gcfg) == IF gcfg.solver.max_guesses <= 0 THEN "done" ELSE SlotStart(gcfg)

(***************************************************************************)
(* Solve runs                                                              *)
(***************************************************************************)
MaxGuesses == 2

GenerationsPerGuess == 1

\* mutation_rate 0 and 25 (both branches of hard_mutate_genome can be taken)
MutationRates == {0, 25}

\* elite_fraction 0.5 and 0.7: one and two elites of three individuals
EliteFractions == {50, 70}

SolverConfigs ==
    {[evolution |-> [pop_size |-> 3, genome_length |-> 2,
                     generations_per_guess |-> GenerationsPerGuess,
                     tournament_size |-> 2, crossover_rate |-> 50,
                     mutation_rate |-> mr, elite_fraction |-> ef,
                     mid_fraction |-> 50, min_char_index |-> 1],
      fitness |-> [error_tolerance |-> 100, wrong_value_penalty |-> 1,
                   low_gray_bonus |-> 4, green_bonus |-> 2,
                   diversity_bonus_per_symbol |-> 1,
                   history_incopatibility_penalty |-> 3,
                   repeat_guess_penalty |-> 5],
      solver |-> [max_guesses |-> MaxGuesses]] :
     mr \in MutationRates, ef \in EliteFractions}

\* "2+3*4" (the secret of test_sandbox.py and of the autotuner's fallback) and the
\* six-character "1/-111"
Secrets == {<<"2", "+", "3", "*", "4">>, <<"1", "/", "-", "1", "1", "1">>}

\* genomes init_population can draw: "-11111", "1/-111", "4/-444"
InitGenomes == {<<0, 255>>, <<1, 0>>, <<1, 255>>}

InitPopulations(evo_cfg) ==
    {[i \in 1..evo_cfg.pop_size |-> Individual(genomes[i])] :
        genomes \in [1..evo_cfg.pop_size -> {g \in InitGenomes :
                                               Len(g) = evo_cfg.genome_length}]}

CallsIdle == call = <<>> /\ ret = <<>> /\ cpc = "idle"

\* solver.py:35-45
Init ==
    /\ \E gcfg \in SolverConfigs, secret \in Secrets :
          /\ cfg = gcfg
          /\ game = from_secret_expr(secret, gcfg.solver.max_guesses)
          /\ population \in InitPopulations(gcfg.evolution)
          /\ pc = LoopStart(gcfg)
    /\ history = <<>>
    /\ guess_idx = 0
    /\ gen_idx = 0
    /\ survivors = <<>>
    /\ new_pop = <<>>
    /\ existing_genomes = {}
    /\ CallsIdle

\* an exception leaves run_generation and the solver
Raise(pop) ==
    /\ pc' = "raised"
    /\ population' = pop
    /\ UNCHANGED <<game, cfg, history, guess_idx, gen_idx, survivors, new_pop,
                   existing_genomes, pvars>>

\* evolution_loop.py:78-93  survivors, elites
BeginRefill(pop, st, survivor_list) ==
    /\ population' = pop
    /\ survivors' = survivor_list
    /\ new_pop' = st.new_pop
    /\ existing_genomes' = st.existing_genomes
    /\ pc' = "refill"
    /\ UNCHANGED <<game, cfg, history, guess_idx, gen_idx, pvars>>

\* run_generation up to the refill loop (evolution_loop.py:37-93); an empty
\* population raises ValueError before anything is evaluated (37-38)
GenBegin ==
    /\ pc = "generation"
    /\ IF Len(population) = 0 THEN Raise(population)
       ELSE \E o \in DedupPass(population, game.target_value, history, cfg) :
          IF o.raised THEN Raise(o.population)
          ELSE \E survivor_list \in select_survivors(o.population, cfg.evolution) :
                  BeginRefill(o.population,
                              StartNewPop(survivor_list, cfg.evolution, Len(o.population)),
                              survivor_list)

\* one iteration of "while len(new_pop) < pop_size" (evolution_loop.py:96-118)
RefillStep ==
    /\ pc = "refill"
    /\ Len(new_pop) < Len(population)
    /\ \E st \in RefillOutcomes([new_pop |-> new_pop,
                                 existing_genomes |-> existing_genomes],
                                survivors, cfg.evolution, Len(population)) :
          /\ new_pop' = st.new_pop
          /\ existing_genomes' = st.existing_genomes
    /\ UNCHANGED <<game, cfg, population, history, guess_idx, gen_idx, pc, survivors,
                   pvars>>

\* the loop ends and run_generation returns new_pop (evolution_loop.py:96, 120;
\* solver.py:81-82)
GenEnd ==
    /\ pc = "refill"
    /\ Len(new_pop) >= Len(population)
    /\ population' = new_pop
    /\ gen_idx' = gen_idx + 1
    /\ pc' = IF gen_idx + 1 < cfg.evolution.generations_per_guess
             THEN "generation" ELSE "guess"
    /\ survivors' = <<>>
    /\ new_pop' = <<>>
    /\ existing_genomes' = {}
    /\ UNCHANGED <<game, cfg, history, guess_idx, pvars>>

\* a variant of Answered whose loop goes on after a correct guess
AnsweredNoBreak(pop, played) ==
    /\ game' = played
    /\ history' = Append(history, Last(played.history))
    /\ population' = pop
    /\ IF guess_idx + 1 >= game.max_guesses
       THEN pc' = "done" /\ UNCHANGED <<guess_idx, gen_idx>>
       ELSE pc' = SlotStart(cfg) /\ guess_idx' = guess_idx + 1 /\ gen_idx' = 0
    /\ UNCHANGED <<cfg, survivors, new_pop, existing_genomes, pvars>>

\* solver.py:130-154  the game has answered
Answered(pop, played) ==
    /\ game' = played
    /\ history' = Append(history, Last(played.history))
    /\ population' = pop
    /\ IF Last(played.history).is_correct \/ guess_idx + 1 >= game.max_guesses
       THEN pc' = "done" /\ UNCHANGED <<guess_idx, gen_idx>>
       ELSE pc' = SlotStart(cfg) /\ guess_idx' = guess_idx + 1 /\ gen_idx' = 0
    /\ UNCHANGED <<cfg, survivors, new_pop, existing_genomes, pvars>>

\* the end of a guess slot: final evaluation, choice of the guess, make_guess
\* (solver.py:93-154); on an empty population ranked[0] raises IndexError (117)
SubmitGuess ==
    /\ pc = "guess"
    /\ IF Len(population) = 0 THEN Raise(population)
       ELSE \E o \in {eval_population(population, game.target_value, history, cfg.fitness)} :
          IF o.raised THEN Raise(o.population)
          ELSE Answered(o.population,
                        make_guess(game, ChosenGuess(o.population, history)))

Next == GenBegin \/ RefillStep \/ GenEnd \/ SubmitGuess

Spec == Init /\ [][Next]_vars

\* C1: run_generation returns exactly as many individuals as it was given, so
\* the population the solver carries has pop_size individuals at every point
\* of every guess slot; the population being refilled never exceeds that size.
C1_PopulationSizeKept ==
    /\ Len(population) = cfg.evolution.pop_size
    /\ Len(new_pop) <= cfg.evolution.pop_size

\* a generation has returned its new population (fresh individuals, the
\* refill loop having added the children) in the second guess slot
C1_Witness ==
    /\ pc = "guess"
    /\ guess_idx = 1
    /\ gen_idx = cfg.evolution.generations_per_guess
    /\ Len(population) = cfg.evolution.pop_size
    /\ \A i \in 1..Len(population) : population[i] = Individual(population[i].genome)

\* the refill loop is at a point where no iteration can add a child: every
\* iteration leaves new_pop as it is
RefillStuck ==
    /\ pc = "refill"
    /\ Len(new_pop) < Len(population)
    /\ \A st \in RefillOutcomes([new_pop |-> new_pop,
                                 existing_genomes |-> existing_genomes],
                                survivors, cfg.evolution, Len(population)) :
          st.new_pop = new_pop

\* C2: every solve run ends: each refill loop reaches pop_size and returns,
\* whatever the mutation rate and the size of the survivor pool; so the loop
\* is never at a point from which no iteration can bring it nearer pop_size.
C2_RefillLoopEnds == ~RefillStuck

\* C3: a solve run on the secret "2+3*4" ends with the last History entry
\* marked correct.
C3_EndsSolved ==
    (pc = "done" /\ game.secret_expr = <<"2", "+", "3", "*", "4">>)
        => (Len(history) > 0 /\ Last(history).is_correct)

\* on the secret "2+3*4" no guess the solver submits is ever valid
ShortSecretNeverValid ==
    game.secret_expr = <<"2", "+", "3", "*", "4">>
        => \A k \in 1..Len(history) : ~history[k].is_valid /\ ~history[k].is_correct

\* C7: every codon of every genome of the population (initial, after the
\* de-duplication pass, returned by a generation) is an integer in [0,255].
C7_CodonsInRange ==
    /\ \A i \in 1..Len(population) :
          \A k \in 1..Len(population[i].genome) : population[i].genome[k] \in 0..255
    /\ \A i \in 1..Len(new_pop) :
          \A k \in 1..Len(new_pop[i].genome) : new_pop[i].genome[k] \in 0..255

\* C8 as stated: after the de-duplication pass and the re-evaluation no two
\* individuals of the population have the same phenotype.
C8_NoSharedPhenotype ==
    pc = "refill" =>
        \A i \in 1..Len(population) : \A j \in 1..Len(population) :
            i < j => population[i].expr # population[j].expr

\* pop[i] is the first individual of the scan with its phenotype
FirstHolder(pop, i) == \A j \in 1..(i - 1) : pop[j].expr # pop[i].expr

\* C8 amended: the pass leaves every first holder of a phenotype with its
\* genome and phenotype, and changes the genome of every individual whose
\* phenotype repeats an earlier one; so no phenotype is lost, but the changed
\* individuals may still share a phenotype with another one.
C8_FirstHoldersKept ==
    [][(pc = "generation" /\ pc' = "refill") =>
        LET before == eval_population(population, game.target_value, history,
                                      cfg.fitness).population
        IN  \A i \in 1..Len(before) :
                IF FirstHolder(before, i)
                THEN /\ population'[i].genome = before[i].genome
                     /\ population'[i].expr = before[i].expr
                ELSE population'[i].genome # before[i].genome]_vars

\* the pass has changed a repeat of the initial population, and two
\* individuals share a phenotype after it
C8_Witness ==
    /\ pc = "refill"
    /\ guess_idx = 0 /\ gen_idx = 0
    /\ \E i \in 1..Len(population) : population[i].genome \notin InitGenomes
    /\ \E i \in 1..Len(population) : \E j \in 1..Len(population) :
          i < j /\ population[i].expr = population[j].expr

IsPrefix(a, b) == Len(a) <= Len(b) /\ \A k \in 1..Len(a) : b[k] = a[k]

\* C17: the history is append-only: a make_guess call adds its outcome at the
\* end and leaves the earlier entries and their order as they were; no step
\* of the game, of the fitness evaluation or of the solver removes, reorders
\* or rewrites an entry, in the game's history or in the solver's own list.
C17_HistoryAppendOnly ==
    [][/\ IsPrefix(game.history, game'.history)
       /\ IsPrefix(history, history')
       /\ Len(game'.history) <= Len(game.history) + 1
       /\ pc # "guess" => game'.history = game.history /\ history' = history
       /\ (pc = "guess" /\ pc' # "raised") =>
              /\ Len(game'.history) = Len(game.history) + 1
              /\ history' = game'.history
              /\ Last(game'.history) =
                     GuessOutcome(game, Last(game'.history).guess)]_vars

\* the second guess has been recorded after a different first one, the
\* fitness evaluation of the second slot having read the first entry
C17_Witness ==
    /\ pc = "done"
    /\ Len(game.history) = 2
    /\ history = game.history
    /\ history[1] # history[2]
    /\ history[1].is_valid

CorrectEntries(hist) == {k \in 1..Len(hist) : hist[k].is_correct}

\* C18: the history that solve_mathler_with_evolution returns (max_guesses
\* at least 1) has between 1 and max_guesses entries, at most one of them
\* correct; a correct entry is the last one; without a correct entry the
\* history has exactly max_guesses entries.
C18_ReturnedHistory ==
    (pc = "done" /\ game.max_guesses >= 1) =>
        /\ Len(history) >= 1
        /\ Len(history) <= game.max_guesses
        /\ Cardinality(CorrectEntries(history)) <= 1
        /\ CorrectEntries(history) \subseteq {Len(history)}
        /\ CorrectEntries(history) = {} => Len(history) = game.max_guesses

\* a run has returned after its first guess, which was the secret, with a
\* guess slot left over
C18_Witness ==
    /\ pc = "done"
    /\ game.max_guesses = 2
    /\ Len(history) = 1
    /\ history[1].is_correct
    /\ history[1].guess = game.secret_expr

\* a run has returned unsolved with every guess slot used
C18_Exhausted ==
    /\ pc = "done"
    /\ CorrectEntries(history) = {}
    /\ Len(history) = game.max_guesses
    /\ game.max_guesses = 2

(***************************************************************************)
(* Violated preconditions: solve runs configured with pop_size = 0, whose  *)
(* first generation (or, without generations, first choice of a guess)     *)
(* meets an empty population, and direct calls of select_survivors,        *)
(* tournament_select and one_point_crossover on arbitrary pools and        *)
(* parents.                                                                *)
(***************************************************************************)
MaxPool == 4

AbortConfigs ==
    {[gcfg EXCEPT !.evolution.pop_size = 0,
                  !.evolution.generations_per_guess = g,
                  !.solver.max_guesses = m] :
        gcfg \in SolverConfigs, g \in 0..GenerationsPerGuess, m \in 0..MaxGuesses}

\* a Rejected individual, two of equal fitness, a better one
PoolIndividuals ==
    {Individual(<<0, 255>>),
     [Individual(<<1, 0>>) EXCEPT !.fitness = Scored(4)],
     [Individual(<<0, 0>>) EXCEPT !.fitness = Scored(4)],
     [Individual(<<1, 255>>) EXCEPT !.fitness = Scored(7)]}

SelectPools == SeqsUpTo(PoolIndividuals, MaxPool)

TournamentSizes == {1, 2, 3}

MaxParentLen == 3

ParentGenomes == SeqsUpTo(CodonDraws, MaxParentLen)

CrossoverRates == {0, 50, 100}

\* elite_fraction and mid_fraction: none, a quarter, a half, all
BandFractions == {0, 25, 50, 100}

NoReturn == [raised |-> FALSE, value |-> {}]

\* solver.py:35-45 with pop_size = 0: init_population returns the empty list
AbortSolveInit ==
    /\ \E gcfg \in AbortConfigs, secret \in Secrets :
          /\ cfg = gcfg
          /\ game = from_secret_expr(secret, gcfg.solver.max_guesses)
          /\ population \in InitPopulations(gcfg.evolution)
          /\ pc = LoopStart(gcfg)
    /\ history = <<>> /\ guess_idx = 0 /\ gen_idx = 0
    /\ survivors = <<>> /\ new_pop = <<>> /\ existing_genomes = {}
    /\ CallsIdle

AbortCallInit ==
    /\ cpc = "start"
    /\ \/ \E pool \in SelectPools, k \in TournamentSizes :
             call = [op |-> "tournament_select", pop |-> pool, k |-> k]
       \/ \E g1 \in ParentGenomes, g2 \in ParentGenomes, r \in CrossoverRates :
             call = [op |-> "one_point_crossover", g1 |-> g1, g2 |-> g2,
                     evo_cfg |-> [crossover_rate |-> r]]
       \/ \E pool \in SelectPools, ef \in BandFractions, mf \in BandFractions :
             call = [op |-> "select_survivors", pop |-> pool,
                     evo_cfg |-> [elite_fraction |-> ef, mid_fraction |-> mf]]
    /\ ret = NoReturn
    /\ game = NoGame
    /\ SolverIdle

AbortInit == AbortSolveInit \/ AbortCallInit

\* one tournament_select call: it raises or returns one of the winners
SelectCall ==
    /\ cpc = "start"
    /\ call.op = "tournament_select"
    /\ ret' = IF TournamentRaises(call.pop)
              THEN [raised |-> TRUE, value |-> {}]
              ELSE [raised |-> FALSE, value |-> tournament_select(call.pop, call.k)]
    /\ cpc' = "returned"
    /\ UNCHANGED <<call, game, svars>>

\* one one_point_crossover call: it raises or returns one of the child pairs
CrossCall ==
    /\ cpc = "start"
    /\ call.op = "one_point_crossover"
    /\ ret' = IF CrossoverRaises(call.g1, call.g2)
              THEN [raised |-> TRUE, value |-> {}]
              ELSE [raised |-> FALSE,
                    value |-> one_point_crossover(call.g1, call.g2, call.evo_cfg)]
    /\ cpc' = "returned"
    /\ UNCHANGED <<call, game, svars>>

\* one select_survivors call: it returns one of the survivor lists
SurviveCall ==
    /\ cpc = "start"
    /\ call.op = "select_survivors"
    /\ ret' = [raised |-> FALSE, value |-> select_survivors(call.pop, call.evo_cfg)]
    /\ cpc' = "returned"
    /\ UNCHANGED <<call, game, svars>>

AbortNext == GenBegin \/ SubmitGuess \/ SelectCall \/ CrossCall \/ SurviveCall

SpecAbort == AbortInit /\ [][AbortNext]_vars

\* the direct calls: an empty pool and parents of different lengths raise
\* and return nothing; every other call returns
CallsAbort ==
    cpc = "returned" =>
        /\ call.op = "tournament_select" =>
               /\ ret.raised <=> Len(call.pop) = 0
               /\ ret.raised => ret.value = {}
               /\ ~ret.raised => ret.value # {} /\ ret.value \subseteq Range(call.pop)
        /\ call.op = "one_point_crossover" =>
               /\ ret.raised <=> Len(call.g1) # Len(call.g2)
               /\ ret.raised => ret.value = {}
               /\ ~ret.raised => ret.value # {}

\* a solve run on an empty population: run_generation has returned no
\* population, nothing has been evaluated or submitted, and the run is
\* at the call that raises, or has raised, or never entered its loop
EmptyPopulationAborts ==
    pc # "idle" =>
        /\ population = <<>> /\ new_pop = <<>> /\ survivors = <<>>
        /\ history = <<>> /\ game.history = <<>>
        /\ guess_idx = 0 /\ gen_idx = 0
        /\ pc \in {"generation", "guess", "raised", "done"}
        /\ pc \in {"generation", "guess"} => ENABLED (GenBegin \/ SubmitGuess)

\* C20 as stated: precondition violations abort: run_generation on an empty
\* population raises before the evaluator is called and returns no
\* population; tournament_select on an empty pool raises; one_point_crossover
\* on parents of different lengths raises without children; a solve run
\* with pop_size = 0 ends with an error and returns no history.
C20_PreconditionsAbort ==
    /\ CallsAbort
    /\ EmptyPopulationAborts
    /\ pc # "done"

\* C20, amended: the same, the solve run having max_guesses >= 1; with
\* max_guesses = 0 the loop is never entered and the empty history returns.
C20_PreconditionsAbortWithGuessSlot ==
    /\ CallsAbort
    /\ EmptyPopulationAborts
    /\ pc = "done" <=> (pc # "idle" /\ cfg.solver.max_guesses = 0)

\* a solve run with pop_size = 0 and a generation per guess has raised at
\* its first run_generation call
C20_Witness ==
    /\ pc = "raised"
    /\ cfg.evolution.pop_size = 0
    /\ cfg.evolution.generations_per_guess >= 1
    /\ cfg.solver.max_guesses >= 1
    /\ population = <<>>

(***************************************************************************)
(* The choice of a guess: the end of a guess slot (solver.py:93-120) on    *)
(* populations of up to MaxRanked individuals, more than the five ranks    *)
(* the solver scans, after no or one earlier guess.                        *)
(***************************************************************************)
MaxRanked == 6

\* "1/-111", which the genomes of InitGenomes can spell, and "1-1+0" = 0, for
\* which the fallback guess "0+0+0" is a valid guess
ChoiceSecrets == {<<"1", "/", "-", "1", "1", "1">>, <<"1", "-", "1", "+", "0">>}

\* an earlier guess: valid for the first secret, invalid, valid for the second
ChoiceGuesses == {<<"4", "/", "-", "4", "4", "4">>, <<"-", "1", "1", "1", "1", "1">>, FALLBACK_GUESS}

\* populations of one genome_length: 2, or 0 (no genome can be decoded)
ChoiceGenomes ==
    {q \in SeqsUpTo(InitGenomes, MaxRanked) : Len(q) >= 1}
    \cup {[i \in 1..n |-> <<>>] : n \in 1..MaxRanked}

ChoiceFitConfig == (CHOOSE gcfg \in SolverConfigs : TRUE).fitness

NoChoice == [raised |-> FALSE, population |-> <<>>, guess |-> NoneValue]

ChoiceInit ==
    /\ cpc = "slot"
    /\ \E secret \in ChoiceSecrets :
          \/ game = from_secret_expr(secret, MaxGuesses)
          \/ \E g \in ChoiceGuesses :
                game = make_guess(from_secret_expr(secret, MaxGuesses), g)
    /\ \E genomes \in ChoiceGenomes :
          call = [population |-> [i \in 1..Len(genomes) |-> Individual(genomes[i])]]
    /\ ret = NoChoice
    /\ SolverIdle

ChoiceMade(o) ==
    IF o.raised THEN [raised |-> TRUE, population |-> o.population, guess |-> NoneValue]
    ELSE [raised |-> FALSE, population |-> o.population,
          guess |-> ChosenGuess(o.population, game.history)]

\* solver.py:93-120  final evaluation of the population, choice of the guess
ChoiceCall ==
    /\ cpc = "slot"
    /\ ret' = ChoiceMade(eval_population(call.population, game.target_value,
                                         game.history, ChoiceFitConfig))
    /\ cpc' = "chosen"
    /\ UNCHANGED <<call, game, svars>>

ChoiceNext == ChoiceCall

SpecChoice == ChoiceInit /\ [][ChoiceNext]_vars

\* the ranks among the best five
TopFive(ranked) == 1..Min(5, Len(ranked))

\* best first: nobody is ranked before an individual of higher fitness
RankedByFitness(ranked, pop) ==
    /\ Len(ranked) = Len(pop)
    /\ \A x \in Range(pop) :
          Cardinality({i \in 1..Len(pop) : pop[i] = x})
              = Cardinality({i \in 1..Len(ranked) : ranked[i] = x})
    /\ \A i \in 1..Len(ranked) : \A j \in 1..Len(ranked) :
          i < j => ~FitnessLess(ranked[i].fitness, ranked[j].fitness)

\* what C21 says of a choice: guess taken from ranked, last_valid the most
\* recent valid guess (NoneValue when there is none)
FirstDifferingOfTopFive(ranked, last_valid, guess) ==
    LET differing == {i \in TopFive(ranked) : ranked[i].expr # last_valid}
    IN  /\ differing # {} =>
               guess = ranked[CHOOSE i \in differing : \A j \in differing : i <= j].expr
        /\ differing = {} => guess = ranked[1].expr
        /\ guess = last_valid => \A i \in TopFive(ranked) : ranked[i].expr = last_valid

\* the same with the individuals that have no phenotype passed over
FirstDifferingPhenotypeOfTopFive(ranked, last_valid, guess) ==
    LET differing == {i \in TopFive(ranked) :
                         ranked[i].expr # NoneValue /\ ranked[i].expr # last_valid}
    IN  /\ differing # {} =>
               guess = ranked[CHOOSE i \in differing : \A j \in differing : i <= j].expr
        /\ (differing = {} /\ ranked[1].expr # NoneValue) => guess = ranked[1].expr
        /\ (differing = {} /\ ranked[1].expr = NoneValue) => guess = FALLBACK_GUESS
        /\ guess = last_valid =>
               \A i \in TopFive(ranked) : ranked[i].expr \in {last_valid, NoneValue}

\* C21 as stated: after the final evaluation the solver submits the phenotype
\* of the first of the 5 best-ranked individuals whose phenotype differs from
\* the most recent valid guess, and the phenotype of the best-ranked one only
\* if none of the 5 does; so the guess repeats the most recent valid guess
\* only when all of the top 5 carry that phenotype.
C21_FirstDifferingOfTopFive ==
    (cpc = "chosen" /\ ~ret.raised) =>
        /\ RankedByFitness(sort_by_fitness(ret.population), ret.population)
        /\ FirstDifferingOfTopFive(sort_by_fitness(ret.population),
                                   last_valid_guess(game.history), ret.guess)

\* C21, amended: individuals without a phenotype are passed over, and when
\* the best-ranked individual has none the guess is "0+0+0"; the guess
\* repeats the most recent valid guess only when each of the top 5 carries
\* that phenotype or none.
C21_FirstDifferingPhenotypeOfTopFive ==
    (cpc = "chosen" /\ ~ret.raised) =>
        /\ RankedByFitness(sort_by_fitness(ret.population), ret.population)
        /\ FirstDifferingPhenotypeOfTopFive(sort_by_fitness(ret.population),
                                            last_valid_guess(game.history), ret.guess)

\* six individuals, the five best carrying the most recent valid guess and the
\* sixth another phenotype: the guess is repeated
C21_Witness ==
    /\ cpc = "chosen" /\ ~ret.raised
    /\ Len(ret.population) = 6
    /\ last_valid_guess(game.history) # NoneValue
    /\ ret.guess = last_valid_guess(game.history)
    /\ \A i \in 1..5 :
          sort_by_fitness(ret.population)[i].expr = last_valid_guess(game.history)
    /\ sort_by_fitness(ret.population)[6].expr
           \notin {last_valid_guess(game.history), NoneValue}

DistinctGenomes(pop) ==
    \A i \in 1..Len(pop) : \A j \in 1..Len(pop) :
        i # j => pop[i].genome # pop[j].genome

\* C22: the population run_generation returns has no two individuals with
\* the same genome: an elite whose genome was already added is skipped, and
\* a child whose genome is already in the new population is mutated once
\* more and dropped if it still is.
C22_ReturnedGenomesDistinct ==
    /\ pc = "refill" =>
           /\ DistinctGenomes(new_pop)
           /\ existing_genomes = {new_pop[i].genome : i \in 1..Len(new_pop)}
    /\ (pc \in {"generation", "guess"} /\ gen_idx >= 1) => DistinctGenomes(population)

\* a generation has returned a full population of distinct genomes, one of
\* them a genome that mutation produced
C22_Witness ==
    /\ pc = "guess"
    /\ gen_idx >= 1
    /\ Len(population) = cfg.evolution.pop_size
    /\ DistinctGenomes(population)
    /\ \E i \in 1..Len(population) : population[i].genome \notin InitGenomes

\* the genomes of the elite ranks of the survivors, best first
EliteGenomes(survivor_list, evo_cfg, pop_size) ==
    [k \in 1..Min(Len(survivor_list),
                  Max(1, IntOfFraction(evo_cfg.elite_fraction, pop_size))) |->
        sort_by_fitness(survivor_list)[k].genome]

\* the first entries of next are the elite genomes, each once, in rank order,
\* and each is the genome of a survivor, which is an individual of pop
ElitesUnchanged(pop, survivor_list, next, evo_cfg) ==
    LET eg == EliteGenomes(survivor_list, evo_cfg, Len(pop))
        firsts == {k \in 1..Len(eg) : \A m \in 1..(k - 1) : eg[m] # eg[k]}
    IN  /\ Len(next) >= Cardinality(firsts)
        /\ \A k \in firsts :
              next[Cardinality({m \in firsts : m <= k})] = Individual(eg[k])
        /\ \A k \in 1..Len(eg) :
              \E i \in 1..Len(survivor_list) : survivor_list[i].genome = eg[k]
        /\ \A i \in 1..Len(survivor_list) : survivor_list[i] \in Range(pop)
        /\ next[1].genome = sort_by_fitness(pop)[1].genome

\* C23: mutation is never applied to elites: every elite placed in the next
\* generation has, codon for codon, the genome of a survivor of the evaluated
\* population, and the genome of the best-ranked individual of the evaluated
\* population is unchanged in the population run_generation returns.
C23_ElitesUnchanged ==
    [][/\ pc' = "refill" =>
              ElitesUnchanged(population', survivors', new_pop', cfg.evolution)
       /\ (pc = "refill" /\ pc' \in {"generation", "guess"}) =>
              /\ population' = new_pop
              /\ population'[1].genome = sort_by_fitness(population)[1].genome]_vars

\* a generation with two elites has returned: two genomes of the initial
\* population stand first, before a child that mutation has changed
C23_Witness ==
    /\ pc = "guess"
    /\ gen_idx >= 1
    /\ guess_idx = 0
    /\ IntOfFraction(cfg.evolution.elite_fraction, cfg.evolution.pop_size) = 2
    /\ population[1].genome \in InitGenomes
    /\ population[2].genome \in InitGenomes
    /\ \E i \in 3..Len(population) : population[i].genome \notin InitGenomes
    /\ cfg.evolution.mutation_rate > 0

\* sv is the elite band of ranked followed by individuals of the mid band,
\* in rank order, each rank taken at most once
WithinBands(sv, ranked, n_elite, n_mid) ==
    /\ Len(sv) >= n_elite
    /\ SubSeq(sv, 1, n_elite) = SubSeq(ranked, 1, n_elite)
    /\ \E f \in [1..(Len(sv) - n_elite) -> (n_elite + 1)..Min(Len(ranked), n_elite + n_mid)] :
          /\ \A a \in DOMAIN f : \A b \in DOMAIN f : a < b => f[a] < f[b]
          /\ \A a \in DOMAIN f : sv[n_elite + a] = ranked[f[a]]

\* C24: select_survivors on a non-empty population of size N returns a
\* non-empty list of individuals of the population that holds the whole
\* elite band (the top int(elite_fraction * N) ranks, at least the best
\* individual) and besides it only individuals of the next
\* int(mid_fraction * N) ranks; nobody ranked below both bands survives.
C24_SurvivorsWithinBands ==
    (cpc = "returned" /\ call.op = "select_survivors" /\ Len(call.pop) > 0) =>
        /\ ~ret.raised
        /\ ret.value # {}
        /\ \A sv \in ret.value :
              /\ Len(sv) >= 1
              /\ Range(sv) \subseteq Range(call.pop)
              /\ sv[1] = sort_by_fitness(call.pop)[1]
              /\ \A i \in 1..Len(call.pop) :
                    ~FitnessGreater(call.pop[i].fitness, sv[1].fitness)
              /\ WithinBands(sv, sort_by_fitness(call.pop),
                             Min(Len(call.pop),
                                 Max(1, (call.evo_cfg.elite_fraction * Len(call.pop)) \div 100)),
                             (call.evo_cfg.mid_fraction * Len(call.pop)) \div 100)

\* four individuals, one rank in each band and two below both: the call can
\* return the elite alone or with the mid individual, nothing else
C24_Witness ==
    /\ cpc = "returned" /\ call.op = "select_survivors"
    /\ Len(call.pop) = 4
    /\ call.evo_cfg.elite_fraction = 25 /\ call.evo_cfg.mid_fraction = 25
    /\ Cardinality(Range(call.pop)) = 4
    /\ ret.value = {<<sort_by_fitness(call.pop)[1]>>,
                    <<sort_by_fitness(call.pop)[1], sort_by_fitness(call.pop)[2]>>}

\* the sets of positions of pop a draw of min(k, |pop|) distinct members can be
Draws(pop, k) ==
    {sample \in SUBSET (1..Len(pop)) : Cardinality(sample) = Min(k, Len(pop))}

\* w has the maximum fitness among the members of pop at the positions sample
WinsDraw(w, pop, sample) ==
    /\ \E i \in sample : pop[i] = w
    /\ \A j \in sample : ~FitnessGreater(pop[j].fitness, w.fitness)

\* C25: tournament_select(pool, k) on a non-empty pool returns a member of
\* the pool whose fitness is the maximum over some set of min(k, |pool|)
\* distinct pool members; with k >= |pool| it returns an individual of
\* maximum fitness in the pool; it returns a Rejected individual only from a
\* draw whose candidates are all Rejected.
C25_TournamentWinner ==
    (cpc = "returned" /\ call.op = "tournament_select" /\ Len(call.pop) > 0) =>
        /\ ~ret.raised
        /\ ret.value # {}
        /\ \A w \in ret.value :
              /\ w \in Range(call.pop)
              /\ \E sample \in Draws(call.pop, call.k) : WinsDraw(w, call.pop, sample)
              /\ call.k >= Len(call.pop) =>
                    \A j \in 1..Len(call.pop) :
                        ~FitnessGreater(call.pop[j].fitness, w.fitness)
              /\ w.fitness.rej =>
                    \A sample \in Draws(call.pop, call.k) :
                        WinsDraw(w, call.pop, sample) =>
                            \A j \in sample : call.pop[j].fitness.rej

\* a pool of four with a draw of three: the Rejected member, present once,
\* cannot win, a member that is not the best can
C25_Witness ==
    /\ cpc = "returned" /\ call.op = "tournament_select"
    /\ Len(call.pop) = 4 /\ call.k = 3
    /\ Cardinality({i \in 1..4 : call.pop[i].fitness.rej}) = 1
    /\ \E w \in ret.value : \E j \in 1..4 : FitnessGreater(call.pop[j].fitness, w.fitness)
    /\ \A w \in ret.value : ~w.fitness.rej

\* c is a's first p codons followed by b's codons from position p on
\* (0-based), a[:p] + b[p:]
CutAt(c, a, b, p) ==
    /\ Len(c) = Len(a)
    /\ \A i \in 1..Len(c) : c[i] = IF i <= p THEN a[i] ELSE b[i]

ChildrenOf(c, g1, g2) ==
    /\ Len(c[1]) = Len(g1) /\ Len(c[2]) = Len(g1)
    /\ \/ c = <<g1, g2>>
       \/ \E p \in 1..(Len(g1) - 1) : CutAt(c[1], g1, g2, p) /\ CutAt(c[2], g2, g1, p)
    /\ Len(g1) < 2 => c = <<g1, g2>>
    /\ \A i \in 1..Len(g1) :
          \/ c[1][i] = g1[i] /\ c[2][i] = g2[i]
          \/ c[1][i] = g2[i] /\ c[2][i] = g1[i]

\* C26: one_point_crossover on equal-length parents g1, g2 returns two
\* children of the parents' length: the parents themselves, or, for a cut p
\* with 1 <= p <= length-1, g1[:p] + g2[p:] and g2[:p] + g1[p:]; parents
\* shorter than 2 codons are always copied; at every index the two child
\* codons are the two parent codons; the parents are left as they were.
C26_CrossoverChildren ==
    [][(CrossCall /\ Len(call.g1) = Len(call.g2)) =>
          /\ call' = call
          /\ ~ret'.raised
          /\ ret'.value # {}
          /\ \A c \in ret'.value : ChildrenOf(c, call.g1, call.g2)]_vars

\* parents of three codons that differ everywhere, crossed for certain: the
\* two cuts give two different pairs of children, neither the parents
C26_Witness ==
    /\ cpc = "returned" /\ call.op = "one_point_crossover"
    /\ Len(call.g1) = 3 /\ Len(call.g2) = 3
    /\ \A i \in 1..3 : call.g1[i] # call.g2[i]
    /\ call.evo_cfg.crossover_rate = 100
    /\ Cardinality(ret.value) = 2
    /\ <<call.g1, call.g2>> \notin ret.value

\* C28: score_expression is total: for every candidate and every history it
\* returns a fitness, Rejected or a number, and never raises, also when the
\* candidate's length differs from that of a valid guess in the history.
C28_ScoreTotal ==
    cpc = "scored" => (~ret.a.raised /\ ~ret.b.raised)

\* a candidate within the tolerance, of another length than a valid guess of
\* the history: the call raised
C28_RaisedOnOtherLength ==
    /\ cpc = "scored"
    /\ ret.a.raised
    /\ \E k \in 1..Len(game.history) :
          game.history[k].is_valid /\ Len(game.history[k].guess) # Len(call.a)

\* the calls that raise are those that get as far as the compatibility check
\* with a valid guess of another length in the history
C28_RaisesExactlyOnOtherLength ==
    cpc = "scored" =>
        (ret.a.raised <=>
            /\ safe_eval_expression(call.a).ok
            /\ ~OutsideTolerance(RatAbs(RatSub(safe_eval_expression(call.a).v,
                                               game.target_value)), call.fit_cfg)
            /\ \E k \in 1..Len(game.history) :
                  /\ game.history[k].is_valid
                  /\ Len(game.history[k].guess) # Len(call.a)
                  /\ \A j \in 1..(k - 1) :
                        game.history[j].is_valid =>
                            compute_feedback(game.history[j].guess, call.a).feedback
                                = game.history[j].feedback)

\* the characters marked GRAY in some valid entry of hist
GrayMarked(hist) ==
    {c \in UNION {Range(hist[k].guess) : k \in 1..Len(hist)} :
        \E k \in 1..Len(hist) :
            /\ hist[k].is_valid
            /\ \E i \in 1..Len(hist[k].guess) :
                  /\ i <= Len(hist[k].feedback)
                  /\ hist[k].feedback[i] = "GRAY"
                  /\ hist[k].guess[i] = c}

\* how many characters of expr are forbidden, counted with repetition
ForbiddenUsed(expr, hist) ==
    Cardinality({i \in 1..Len(expr) : expr[i] \in GrayMarked(hist)})

\* two scored candidates that agree in every term but the gray one
EqualButGray(ra, rb) ==
    /\ ~ra.raised /\ ~rb.raised
    /\ ~ra.fitness.rej /\ ~rb.fitness.rej
    /\ ra.terms.value = rb.terms.value
    /\ ra.terms.green = rb.terms.green
    /\ ra.terms.diversity = rb.terms.diversity
    /\ ra.terms.consistency = rb.terms.consistency
    /\ ra.terms.repeat = rb.terms.repeat

\* a scored candidate with n >= 3 forbidden symbols loses n * low_gray_bonus / 2
\* (terms are in half units), one with fewer gains low_gray_bonus
GrayProportional(expr, hist, fit_cfg, r) ==
    (~r.raised /\ ~r.fitness.rej) =>
        r.terms.gray = IF ForbiddenUsed(expr, hist) >= 3
                       THEN -(ForbiddenUsed(expr, hist) * fit_cfg.low_gray_bonus)
                       ELSE 2 * fit_cfg.low_gray_bonus

\* C27: the forbidden symbols are exactly the characters marked GRAY in some
\* valid history entry, invalid entries giving none; with a positive
\* low_gray_bonus, of two candidates equal in every other score term the one
\* with fewer than 3 forbidden symbols scores strictly higher than the one
\* with 3 or more, whose score is reduced in proportion to the number used.
C27_ForbiddenSymbolsAndGrayTerm ==
    /\ get_forbidden_symbols(game.history) = GrayMarked(game.history)
    /\ (cpc = "scored" /\ call.fit_cfg.low_gray_bonus > 0) =>
          /\ GrayProportional(call.a, game.history, call.fit_cfg, ret.a)
          /\ GrayProportional(call.b, game.history, call.fit_cfg, ret.b)
          /\ (/\ EqualButGray(ret.a, ret.b)
              /\ ForbiddenUsed(call.a, game.history) < 3
              /\ ForbiddenUsed(call.b, game.history) >= 3) =>
                 FitnessGreater(ret.a.fitness, ret.b.fitness)

\* after an invalid and a valid guess with GRAY marks, a candidate without
\* forbidden symbols against one with exactly three, equal in the other terms
C27_Witness ==
    /\ cpc = "scored"
    /\ \E k \in 1..Len(game.history) : ~game.history[k].is_valid
    /\ GrayMarked(game.history) # {}
    /\ EqualButGray(ret.a, ret.b)
    /\ ForbiddenUsed(call.a, game.history) = 0
    /\ ForbiddenUsed(call.b, game.history) = 3
    /\ ret.a.fitness.v - ret.b.fitness.v = 5 * call.fit_cfg.low_gray_bonus

\* the genomes that differ from genome in one codon beyond the first used
UnusedCodonChanged(genome, used) ==
    {[genome EXCEPT ![i] = c] : i \in (used + 1)..Len(genome), c \in CodonInputs}

\* C30: decoding is invariant under tiling and ignores unused codons: for a
\* non-empty genome g, decoding g and decoding g followed by g have the same
\* outcome (the same phenotype, or both MappingError), changing a codon at an
\* index beyond the number of codons the derivation consumed does not change
\* the outcome, and the genome is as it was after the call.
C30_TilingAndUnusedCodons ==
    [][(CodecDecode /\ Len(call.genome) > 0) =>
          /\ call' = call
          /\ DecodeOutcome(call.genome \o call.genome, call.max_expansions) = ret'.dec
          /\ \A g \in UnusedCodonChanged(call.genome, ret'.dec.expansions) :
                DecodeOutcome(g, call.max_expansions) = ret'.dec]_vars

\* a completed default decode that went round the genome more than once
C30_Witness ==
    /\ cpc = "decoded"
    /\ ret.dec.ok
    /\ call.max_expansions = DefaultMaxExpansions
    /\ Len(call.genome) = 2
    /\ call.genome[1] # call.genome[2]
    /\ ret.dec.expansions > 2 * Len(call.genome)

\* a completed default decode that left codons unread
C30_UnusedCodons ==
    /\ cpc = "decoded"
    /\ ret.dec.ok
    /\ call.max_expansions = DefaultMaxExpansions
    /\ ret.dec.expansions < Len(call.genome)

(***************************************************************************)
(* One guess slot with several generations: the solver runs                *)
(* generations_per_guess = SlotGenerations generations on the same target  *)
(* and history, then submits its guess.                                    *)
(***************************************************************************)
SlotGenerations == 2

SlotConfigs ==
    {[gcfg EXCEPT !.evolution.generations_per_guess = SlotGenerations,
                  !.solver.max_guesses = 1] : gcfg \in SolverConfigs}

\* solver.py:35-45
SlotInit ==
    /\ \E gcfg \in SlotConfigs, secret \in Secrets :
          /\ cfg = gcfg
          /\ game = from_secret_expr(secret, gcfg.solver.max_guesses)
          /\ population \in InitPopulations(gcfg.evolution)
          /\ pc = LoopStart(gcfg)
    /\ history = <<>>
    /\ guess_idx = 0
    /\ gen_idx = 0
    /\ survivors = <<>>
    /\ new_pop = <<>>
    /\ existing_genomes = {}
    /\ CallsIdle

SpecSlot == SlotInit /\ [][Next]_vars

\* the greatest fitness of a non-empty evaluated population (fitness_max of
\* evolution_loop.py:50-53, Rejected when nobody has a finite fitness)
MaxFitnessOf(pop) ==
    pop[CHOOSE i \in 1..Len(pop) :
            \A j \in 1..Len(pop) : ~FitnessGreater(pop[j].fitness, pop[i].fitness)].fitness

\* every evaluated, de-duplicated population the next generation can have
\* from next_pop has a maximum fitness of at least best
NextGenerationAtLeast(next_pop, best) ==
    \A o \in DedupPass(next_pop, game.target_value, history, cfg) :
        o.raised \/ ~FitnessLess(MaxFitnessOf(o.population), best)

\* C29: elitism is monotone within a guess slot: across consecutive
\* run_generation calls on the same target and history, the maximum fitness
\* of the evaluated, de-duplicated population never decreases: the returned
\* population starts with the unchanged genome of the best individual, and
\* the first individual of the de-duplication scan is never force-mutated.
C29_ElitismMonotone ==
    [][/\ (GenEnd /\ pc' = "generation") =>
             /\ population' = new_pop
             /\ \E i \in 1..Len(population) :
                   /\ population[i].fitness = MaxFitnessOf(population)
                   /\ population[i].genome = new_pop[1].genome
             /\ NextGenerationAtLeast(new_pop, MaxFitnessOf(population))
       /\ (GenBegin /\ pc' = "refill") =>
             /\ population'[1].genome = population[1].genome
             /\ \E o \in DedupPass(population, game.target_value, history, cfg) :
                   ~o.raised /\ population' = o.population]_vars

\* the second generation of a slot whose best fitness is above that of the
\* first generation's returned elite, after a force-mutation in its scan
C29_Witness ==
    /\ pc = "refill"
    /\ gen_idx = 1
    /\ FitnessGreater(MaxFitnessOf(population), population[1].fitness)
    /\ ~population[1].fitness.rej
    /\ \E i \in 2..Len(population) : \E k \in 1..Len(population[i].genome) :
          population[i].genome[k] = 256

====
